---------------------------- MODULE Spec2Model ----------------------------
(***************************************************************************)
(* Model of the baresip-apps intercom module: call admission by the        *)
(* "Subject" header (events.c), the custom subject registry (iccustom.c),  *)
(* the hidden DTMF call state machine (ichidden.c) and the deferred        *)
(* release of rejected calls (intercom.h: mem_deref_later).                *)
(*                                                                         *)
(* Strings are sequences of one-character strings.  A pointer-length       *)
(* string (struct pl) is a record [p, l]: p is the memory from the pointer *)
(* on (so that strncmp can read past l bytes, as the code does) and l the  *)
(* length.                                                                 *)
(***************************************************************************)
EXTENDS Integers, Sequences, FiniteSets, TLC

VARIABLES
    custom,     \* the custom subject table (struct hash of struct iccustom)
    found,      \* result of the last iccustom_find()
    conf,       \* conf_cur(): the global configuration
    extra,      \* account_extra(acc): the account's extra parameter string
    calls,      \* the call objects, by call id
    hcalls,     \* ichidden.c: struct list hcalls
    tmrs,       \* armed hidden-call timers (the hidden_call each belongs to)
    deref,      \* intercom.h: struct intercom.deref, objects to deref later
    dtmr,       \* intercom.h: struct intercom.tmr is armed
    out,        \* what the last dispatched handler did, in order
    last        \* the last dispatched handler and its arguments

vars == <<custom, found, conf, extra, calls, hcalls, tmrs, deref, dtmr, out, last>>

---------------------------------------------------------------------------
(* Bounds of the model *)

\* calls the host creates in one run
MaxCalls == 2
\* lines of the "iccustom" configuration (CustomSpec)
MaxLines == 2

---------------------------------------------------------------------------
(* C strings and struct pl *)

NUL == "NUL"
LF == "LF"

\* a string literal in memory: its bytes and the terminating NUL
CStr(s) == s \o <<NUL>>

\* PL("...") / pl_set_str(): pointer to a NUL-terminated string, l = strlen
PL(s) == [p |-> CStr(s), l |-> Len(s)]

\* PL_INIT: the unset pl
PL_INIT == [p |-> <<>>, l |-> 0]

\* the l bytes a pl designates
pl_bytes(pl) == SubSeq(pl.p, 1, pl.l)

\* pl_isset(): pointer and length both set
pl_isset(pl) == pl.p # <<>> /\ pl.l > 0

\* pl_strcmp(pl, str): 0 when pl has the length and the bytes of str
pl_strcmp(pl, str) == IF pl.l = Len(str) /\ pl_bytes(pl) = str THEN 0 ELSE 1

\* strncmp(a, b, n) on memory a and b: 0 when the first n characters agree,
\* or both strings end (NUL) at the same place before that
RECURSIVE strncmp(_, _, _)
strncmp(a, b, n) ==
    IF n = 0 THEN 0
    ELSE IF Head(a) # Head(b) THEN 1
    ELSE IF Head(a) = NUL THEN 0
    ELSE strncmp(Tail(a), Tail(b), n - 1)

\* string literals of events.c
S_Subject == <<"S","u","b","j","e","c","t">>
S_normal == <<"n","o","r","m","a","l">>
S_announcement == <<"a","n","n","o","u","n","c","e","m","e","n","t">>
S_forcetalk == <<"f","o","r","c","e","t","a","l","k">>
S_surveillance == <<"s","u","r","v","e","i","l","l","a","n","c","e">>
S_hidden == <<"h","i","d","d","e","n">>
S_preview == <<"p","r","e","v","i","e","w">>
S_yes == <<"y","e","s">>
S_no == <<"n","o">>

---------------------------------------------------------------------------
(* iccustom.c: the custom subject table *)

\* positions of the commas of a line
Commas(line) == {i \in 1..Len(line) : line[i] = ","}

\* the n-th smallest element of a set of numbers
RECURSIVE NthMin(_, _)
NthMin(S, n) ==
    LET m == CHOOSE x \in S : \A y \in S : x <= y
    IN IF n = 1 THEN m ELSE NthMin(S \ {m}, n - 1)

\* a pl into the memory of a configuration line: bytes from..to-1, the
\* memory going on to the end of the line and the line feed after it
PlAt(line, from, to) ==
    [p |-> SubSeq(line, from, Len(line)) \o <<LF>>, l |-> to - from]

\* re_regex(pl->p, pl->l, "[^,]*,[^,]*,[^,]*,[^,]*", &subject, &dir,
\* &allowed, &aufile): the match starts at the first byte; it fails (err)
\* when the line has fewer than three commas
ReRegex4(line) ==
    LET cs == Commas(line) IN
    IF Cardinality(cs) < 3 THEN [err |-> 1]
    ELSE LET c1 == NthMin(cs, 1)
             c2 == NthMin(cs, 2)
             c3 == NthMin(cs, 3)
             e4 == IF Cardinality(cs) >= 4 THEN NthMin(cs, 4)
                   ELSE Len(line) + 1
         IN [err |-> 0,
             subject |-> PlAt(line, 1, c1),
             dir     |-> PlAt(line, c1 + 1, c2),
             allowed |-> PlAt(line, c2 + 1, c3),
             aufile  |-> PlAt(line, c3 + 1, e4)]

\* pl_bool(): the words that set true and false; any other word leaves the
\* flag as mem_zalloc left it (false)
PlBoolTrue == {<<"1">>, <<"t","r","u","e">>, <<"e","n","a","b","l","e">>,
               S_yes, <<"o","n">>}

pl_bool(old, pl) == IF pl_bytes(pl) \in PlBoolTrue THEN TRUE
                    ELSE IF pl_bytes(pl) \in {<<"0">>, <<"f","a","l","s","e">>,
                              <<"d","i","s","a","b","l","e">>, S_no,
                              <<"o","f","f">>} THEN FALSE
                    ELSE old

\* sdp_dir_decode()
sdp_dir_decode(pl) ==
    IF pl_bytes(pl) = <<"i","n","a","c","t","i","v","e">> THEN "inactive"
    ELSE IF pl_bytes(pl) = <<"s","e","n","d","o","n","l","y">> THEN "sendonly"
    ELSE IF pl_bytes(pl) = <<"r","e","c","v","o","n","l","y">> THEN "recvonly"
    ELSE "sendrecv"

\* faulty variant of iccustom_handler: a line that does not parse leaves an
\* entry with an empty subject
iccustom_handler_badentry(line, hash) ==
    LET m == ReRegex4(line) IN
    IF m.err # 0
    THEN Append(hash, [subject |-> PL_INIT, dir |-> "inactive",
                       allowed |-> FALSE, auffile |-> PL_INIT])
    ELSE Append(hash, [subject |-> m.subject,
                       dir     |-> sdp_dir_decode(m.dir),
                       allowed |-> pl_bool(FALSE, m.allowed),
                       auffile |-> m.aufile])

\* faulty variant of iccustom_handler: the entry is put at the head of the
\* table
iccustom_handler_front(line, hash) ==
    LET m == ReRegex4(line) IN
    IF m.err # 0 THEN hash
    ELSE <<[subject |-> m.subject,
            dir     |-> sdp_dir_decode(m.dir),
            allowed |-> pl_bool(FALSE, m.allowed),
            auffile |-> m.aufile]>> \o hash

\* iccustom_handler(pl, hash): one configuration line; a line that does not
\* parse adds nothing, any other line appends its entry
iccustom_handler(line, hash) ==
    LET m == ReRegex4(line) IN
    IF m.err # 0 THEN hash
    ELSE Append(hash, [subject |-> m.subject,
                       dir     |-> sdp_dir_decode(m.dir),
                       allowed |-> pl_bool(FALSE, m.allowed),
                       auffile |-> m.aufile])

\* faulty variant of iccustom_lookup: compares over the length of the value, not of
\* the configured subject
iccustom_lookup_eq(c, pl) ==
    IF pl.l < c.subject.l THEN FALSE
    ELSE strncmp(pl.p, c.subject.p, pl.l) = 0

\* faulty variant of iccustom_lookup: a value shorter than the subject of the
\* entry is compared over its own length
iccustom_lookup_short(c, pl) ==
    strncmp(pl.p, c.subject.p, IF pl.l < c.subject.l THEN pl.l ELSE c.subject.l) = 0

\* iccustom_lookup(le, arg): does the value begin with the entry's subject
iccustom_lookup(c, pl) ==
    IF pl.l < c.subject.l THEN FALSE
    ELSE strncmp(pl.p, c.subject.p, c.subject.l) = 0

\* iccustom_find(val): index of the first entry, in the order of the table,
\* that iccustom_lookup accepts; 0 (NULL) when there is none
iccustom_find(hash, val) ==
    LET hits == {i \in 1..Len(hash) : iccustom_lookup(hash[i], val)}
    IN IF hits = {} THEN 0 ELSE CHOOSE i \in hits : \A j \in hits : i <= j

\* faulty variant of ic_is_custom: the literals announcement, forcetalk and
\* surveillance are never custom subjects
ic_is_custom_notfixed(hash, val) ==
    /\ iccustom_find(hash, val) # 0
    /\ pl_strcmp(val, S_announcement) # 0
    /\ pl_strcmp(val, S_forcetalk) # 0
    /\ pl_strcmp(val, S_surveillance) # 0

\* ic_is_custom(val)
ic_is_custom(hash, val) == iccustom_find(hash, val) # 0

\* iccustom_allowed(val)
iccustom_allowed(hash, val) ==
    LET c == iccustom_find(hash, val) IN IF c = 0 THEN FALSE ELSE hash[c].allowed

\* faulty variant of iccustom_aufile: the subject is returned
iccustom_aufile_subject(hash, val) ==
    LET c == iccustom_find(hash, val) IN IF c = 0 THEN PL_INIT ELSE hash[c].subject

\* iccustom_aufile(val): NULL when no entry matches
iccustom_aufile(hash, val) ==
    LET c == iccustom_find(hash, val) IN IF c = 0 THEN PL_INIT ELSE hash[c].auffile

\* iccustom_dir(val)
iccustom_dir(hash, val) ==
    LET c == iccustom_find(hash, val) IN IF c = 0 THEN "inactive" ELSE hash[c].dir

\* module start: conf_apply(conf_cur(), "iccustom", iccustom_handler, hash)
\* hands every "iccustom" line of the configuration to the handler, in order
RECURSIVE conf_apply_iccustom(_, _)
conf_apply_iccustom(lines, hash) ==
    IF lines = <<>> THEN hash
    ELSE conf_apply_iccustom(Tail(lines), iccustom_handler(Head(lines), hash))

---------------------------------------------------------------------------
(* Configuration and account parameters (events.c, policy of a call) *)

\* a configuration key or the account's extra string: absent, or its text
Unset == [set |-> FALSE, v |-> <<>>]
Set(s) == [set |-> TRUE, v |-> s]

\* conf_get(conf_cur(), name, &pl): the pl is left alone when the key is
\* absent; a value lies in the configuration text, a line feed after it
conf_get(cf, name, dflt) ==
    IF cf[name].set THEN [p |-> cf[name].v \o <<LF>>, l |-> Len(cf[name].v)]
    ELSE dflt

\* conf_get_bool(conf_cur(), name, &v): v is left alone when the key is
\* absent or its value is no boolean word
conf_get_bool(cf, name, old) ==
    IF cf[name].set THEN pl_bool(old, conf_get(cf, name, PL_INIT)) ELSE old

WS == {" ", "TAB", "CR", LF}

\* first position from i on whose character is not in C
RECURSIVE Skip(_, _, _)
Skip(t, i, C) == IF i <= Len(t) /\ t[i] \in C THEN Skip(t, i + 1, C) ELSE i

\* first position from i on whose character is in C
RECURSIVE SkipNot(_, _, _)
SkipNot(t, i, C) == IF i <= Len(t) /\ t[i] \notin C THEN SkipNot(t, i + 1, C) ELSE i

\* the literal s stands in t at position i
AtLit(t, i, s) == i + Len(s) - 1 <= Len(t) /\ SubSeq(t, i, i + Len(s) - 1) = s

\* the expression "[sep]*[ \t\r\n]*name[ \t\r\n]*=[ \t\r\n]*[~ \t\r\n sep]+"
\* of fmt_param_sep_get, tried at position i of t
PrmMatch(t, name, sep, i) ==
    LET a == Skip(t, i, {sep})
        b == Skip(t, a, WS)
        d == Skip(t, b + Len(name), WS)
        e == Skip(t, d + 1, WS)
        f == SkipNot(t, e, WS \cup {sep})
    IN [ok   |-> AtLit(t, b, name) /\ d <= Len(t) /\ t[d] = "=" /\ f > e,
        semi |-> a - i, from |-> e, to |-> f]

\* faulty variant of fmt_param_sep_get: a match counts wherever it stands
fmt_param_sep_get_noguard(pl, name, sep) ==
    LET t == pl_bytes(pl)
        starts == {i \in 1..Len(t) : PrmMatch(t, name, sep, i).ok}
    IN IF starts = {} THEN [ok |-> FALSE, val |-> PL_INIT]
       ELSE LET i == CHOOSE x \in starts : \A y \in starts : x <= y
                m == PrmMatch(t, name, sep, i)
            IN [ok  |-> TRUE,
                val |-> [p |-> SubSeq(pl.p, m.from, Len(pl.p)), l |-> m.to - m.from]]

\* fmt_param_sep_get(pl, name, sep, &val): the leftmost match of the
\* expression; it counts when separators precede the name or the match is
\* at the start of the string
fmt_param_sep_get(pl, name, sep) ==
    LET t == pl_bytes(pl)
        starts == {i \in 1..Len(t) : PrmMatch(t, name, sep, i).ok}
    IN IF starts = {} THEN [ok |-> FALSE, val |-> PL_INIT]
       ELSE LET i == CHOOSE x \in starts : \A y \in starts : x <= y
                m == PrmMatch(t, name, sep, i)
            IN [ok  |-> m.semi > 0 \/ i = 1,
                val |-> [p |-> SubSeq(pl.p, m.from, Len(pl.p)), l |-> m.to - m.from]]

\* account_extra_bool(acc, name, &set): the flag is overwritten only by a
\* parameter of that name whose value is "yes" or "no"
account_extra_bool(ex, name, old) ==
    IF ~ex.set THEN old
    ELSE LET pl == PL(ex.v) IN
         IF ~pl_isset(pl) THEN old
         ELSE LET r == fmt_param_sep_get(pl, name, ",") IN
              IF ~r.ok THEN old
              ELSE IF pl_strcmp(r.val, S_yes) = 0 THEN TRUE
              ELSE IF pl_strcmp(r.val, S_no) = 0 THEN FALSE
              ELSE old

K_icprivacy == <<"i","c","p","r","i","v","a","c","y">>
K_icallow_announce == <<"i","c","a","l","l","o","w","_","a","n","n","o","u","n","c","e">>
K_icallow_force == <<"i","c","a","l","l","o","w","_","f","o","r","c","e">>
K_icallow_surveil == <<"i","c","a","l","l","o","w","_","s","u","r","v","e","i","l">>
K_icallow_hidden == <<"i","c","a","l","l","o","w","_","h","i","d","d","e","n">>

\* faulty variant of Policy: allow_force starts as true
Policy_force_default(cf, ex) ==
    [privacy        |-> account_extra_bool(ex, K_icprivacy,
                            conf_get_bool(cf, "icprivacy", FALSE)),
     allow_announce |-> account_extra_bool(ex, K_icallow_announce,
                            conf_get_bool(cf, "icallow_announce", TRUE)),
     allow_force    |-> account_extra_bool(ex, K_icallow_force,
                            conf_get_bool(cf, "icallow_force", TRUE)),
     allow_surveil  |-> account_extra_bool(ex, K_icallow_surveil,
                            conf_get_bool(cf, "icallow_surveil", FALSE)),
     allow_hidden   |-> account_extra_bool(ex, K_icallow_hidden,
                            conf_get_bool(cf, "icallow_hidden", FALSE))]

\* incoming_handler, the five flags: the defaults of the declarations,
\* overwritten by the configuration, overwritten by the account
Policy(cf, ex) ==
    [privacy        |-> account_extra_bool(ex, K_icprivacy,
                            conf_get_bool(cf, "icprivacy", FALSE)),
     allow_announce |-> account_extra_bool(ex, K_icallow_announce,
                            conf_get_bool(cf, "icallow_announce", TRUE)),
     allow_force    |-> account_extra_bool(ex, K_icallow_force,
                            conf_get_bool(cf, "icallow_force", FALSE)),
     allow_surveil  |-> account_extra_bool(ex, K_icallow_surveil,
                            conf_get_bool(cf, "icallow_surveil", FALSE)),
     allow_hidden   |-> account_extra_bool(ex, K_icallow_hidden,
                            conf_get_bool(cf, "icallow_hidden", FALSE))]

---------------------------------------------------------------------------
(* events.c: classification of a header *)

\* faulty variant of is_normal: the literal of another intent
is_normal_announce(val) == pl_strcmp(val, S_announcement) = 0

is_normal(val) == pl_strcmp(val, S_normal) = 0

is_announcement(val) == pl_strcmp(val, S_announcement) = 0

is_forcetalk(val) == pl_strcmp(val, S_forcetalk) = 0

is_surveillance(val) == pl_strcmp(val, S_surveillance) = 0

\* faulty variant of is_hidden: the literal need only begin the value
is_hidden_prefix(val) == strncmp(val.p, CStr(S_hidden), Len(S_hidden)) = 0

is_hidden(val) == pl_strcmp(val, S_hidden) = 0

\* faulty variant of is_preview: strncmp over the length of the value
is_preview_len(cf, val) ==
    LET subj == conf_get(cf, "icpreview_subject", PL(S_preview))
    IN strncmp(val.p, subj.p, val.l) = 0

\* is_preview(val): strncmp over the length of the preview subject
is_preview(cf, val) ==
    LET subj == conf_get(cf, "icpreview_subject", PL(S_preview))
    IN strncmp(val.p, subj.p, subj.l) = 0

\* faulty variant of is_intercom: the name of the header is not looked at
is_intercom_anyname(cf, hash, name, val) ==
    \/ is_normal(val)
    \/ is_announcement(val)
    \/ is_forcetalk(val)
    \/ is_surveillance(val)
    \/ is_preview(cf, val)
    \/ is_hidden(val)
    \/ ic_is_custom(hash, val)

\* is_intercom(name, val)
is_intercom(cf, hash, name, val) ==
    IF pl_strcmp(name, S_Subject) # 0 THEN FALSE
    ELSE \/ is_normal(val)
         \/ is_announcement(val)
         \/ is_forcetalk(val)
         \/ is_surveillance(val)
         \/ is_preview(cf, val)
         \/ is_hidden(val)
         \/ ic_is_custom(hash, val)

---------------------------------------------------------------------------
(* The state a handler works on.  A handler is an operator from a machine  *)
(* record M = [calls, hcalls, tmrs, deref, dtmr, out, env] to the record    *)
(* it leaves; env holds what the host answers during the handler.           *)

Calls == 1..MaxCalls

\* a call object that does not exist (not yet created, or freed)
NoCall ==
    [ph |-> "free", st |-> "NONE", outgoing |-> FALSE, hdrs |-> <<>>,
     adelay |-> 0, answtmr |-> FALSE, evstop |-> FALSE, muted |-> FALSE,
     aldir |-> "inactive", vldir |-> "inactive", progdir |-> <<>>,
     telev |-> 0, nderef |-> 0]

Emit(M, e) == [M EXCEPT !.out = Append(@, e)]

\* module_event("intercom", ev, ua, call, fmt, ...); stop is the event stop
\* flag of the call (call_set_evstop) at that moment
module_event(M, c, i, ev, txt) ==
    Emit(M, [k |-> "module_event", call |-> c, hdr |-> i, ev |-> ev, txt |-> txt,
             stop |-> M.calls[c].evstop])

\* call_hangup(call, scode, reason)
call_hangup(M, c, scode, reason) ==
    Emit([M EXCEPT !.calls[c].st = "TERMINATED"],
         [k |-> "hangup", call |-> c, scode |-> scode, reason |-> reason])

---------------------------------------------------------------------------
(* ichidden.c: hidden DTMF calls *)

\* key code of the release event that ends a digit
KEYCODE_REL == "REL"

\* the list elements of hcalls that belong to a call, in list order
HcOf(hc, c) == {i \in 1..Len(hc) : hc[i].call = c}

\* the ids of the hidden_call objects of the list
HcIds(hc) == {hc[i].id : i \in 1..Len(hc)}

\* call_hidden_find(call): list_apply() with find_hidden_call: the first
\* element of the list with that call; 0 (NULL) when there is none
call_hidden_find(hc, c) ==
    IF HcOf(hc, c) = {} THEN 0
    ELSE CHOOSE i \in HcOf(hc, c) : \A j \in HcOf(hc, c) : i <= j

\* a sequence without its i-th element
RemoveAt(s, i) == SubSeq(s, 1, i - 1) \o SubSeq(s, i + 1, Len(s))

\* faulty variant of hidden_call_destructor: the timer is not cancelled
hidden_call_destructor_notmr(M, i) ==
    Emit([M EXCEPT !.hcalls = RemoveAt(@, i)],
         [k |-> "hc_destroy", hc |-> M.hcalls[i].id, call |-> M.hcalls[i].call,
          tmr |-> M.hcalls[i].id \in M.tmrs])

\* faulty variant of hidden_call_destructor: the session stays in the list
hidden_call_destructor_nounlink(M, i) ==
    Emit([M EXCEPT !.tmrs = @ \ {M.hcalls[i].id}],
         [k |-> "hc_destroy", hc |-> M.hcalls[i].id, call |-> M.hcalls[i].call,
          tmr |-> M.hcalls[i].id \in M.tmrs])

\* mem_deref(hc) -> hidden_call_destructor(hc), for the list element i:
\* list_unlink, tmr_cancel; out tells whether the timer was armed
hidden_call_destructor(M, i) ==
    Emit([M EXCEPT !.hcalls = RemoveAt(@, i),
                   !.tmrs = @ \ {M.hcalls[i].id}],
         [k |-> "hc_destroy", hc |-> M.hcalls[i].id, call |-> M.hcalls[i].call,
          tmr |-> M.hcalls[i].id \in M.tmrs])

\* faulty variant of hidden_call_append: the new session is in state Send
hidden_call_append_send(M, c, code) ==
    LET id == CHOOSE n \in 1..(Len(M.hcalls) + 1) : n \notin HcIds(M.hcalls)
    IN [M EXCEPT !.hcalls = Append(@, [id |-> id, call |-> c,
                                        state |-> "HIDDEN_SEND",
                                        code |-> code])]

\* hidden_call_append(call, code): a new hidden_call, state HIDDEN_ESTABLISHED
\* (mem_zalloc), appended to hcalls; its id is the smallest unused one
hidden_call_append(M, c, code) ==
    LET id == CHOOSE n \in 1..(Len(M.hcalls) + 1) : n \notin HcIds(M.hcalls)
    IN [M EXCEPT !.hcalls = Append(@, [id |-> id, call |-> c,
                                        state |-> "HIDDEN_ESTABLISHED",
                                        code |-> code])]

\* call_send_digit(call, key): the host queues the telephone event, or fails
call_send_digit(M, c, key, err) ==
    Emit(IF err = 0 THEN [M EXCEPT !.calls[c].telev = @ + 1] ELSE M,
         [k |-> "send_digit", call |-> c, key |-> key, err |-> err])

\* faulty variant of call_send_code: the loop goes on after a failing digit
\* and the release key is always sent
RECURSIVE call_send_code_all(_, _, _, _)
call_send_code_all(M, c, code, i) ==
    LET err == IF M.env.digit_fail = i THEN 1 ELSE 0 IN
    IF i <= Len(code)
    THEN call_send_code_all(call_send_digit(M, c, code[i], err), c, code, i + 1)
    ELSE call_send_digit(M, c, KEYCODE_REL, err)

\* call_send_code(call, code), from the digit at position i on: the loop
\* ends at the first failing digit; the release key is sent when none failed.
\* env.digit_fail is the number of the call_send_digit that fails (0: none)
RECURSIVE call_send_code(_, _, _, _)
call_send_code(M, c, code, i) ==
    LET err == IF M.env.digit_fail = i THEN 1 ELSE 0 IN
    IF i <= Len(code)
    THEN LET M1 == call_send_digit(M, c, code[i], err)
         IN IF err # 0 THEN M1 ELSE call_send_code(M1, c, code, i + 1)
    ELSE call_send_digit(M, c, KEYCODE_REL, err)

\* tmr_start(&hc->tmr, 20, proc_hidden_call, hc)
tmr_start_hc(M, id) == [M EXCEPT !.tmrs = @ \cup {id}]

\* faulty variant of proc_hidden_call: hangs up without waiting for the buffer
proc_hidden_call_nowait(M, i) ==
    LET hc == M.hcalls[i] IN
    CASE hc.state = "HIDDEN_SEND" ->
           tmr_start_hc(call_send_code([M EXCEPT !.hcalls[i].state = "HIDDEN_CLOSE"],
                                       hc.call, hc.code, 1), hc.id)
      [] hc.state = "HIDDEN_CLOSE" ->
           hidden_call_destructor(call_hangup(M, hc.call, 0, "NULL"), i)
      [] OTHER -> M

\* faulty variant of proc_hidden_call: the code is not sent in state HIDDEN_SEND
proc_hidden_call_nosend(M, i) ==
    LET hc == M.hcalls[i] IN
    CASE hc.state = "HIDDEN_SEND" ->
           tmr_start_hc([M EXCEPT !.hcalls[i].state = "HIDDEN_CLOSE"], hc.id)
      [] hc.state = "HIDDEN_CLOSE" ->
           IF M.calls[hc.call].telev = 0
           THEN hidden_call_destructor(call_hangup(M, hc.call, 0, "NULL"), i)
           ELSE tmr_start_hc(M, hc.id)
      [] OTHER -> M

\* faulty variant of proc_hidden_call: in state Close the timer is not
\* started again when the buffer is not empty
proc_hidden_call_norearm(M, i) ==
    LET hc == M.hcalls[i] IN
    CASE hc.state = "HIDDEN_SEND" ->
           tmr_start_hc(call_send_code([M EXCEPT !.hcalls[i].state = "HIDDEN_CLOSE"],
                                       hc.call, hc.code, 1), hc.id)
      [] hc.state = "HIDDEN_CLOSE" ->
           IF M.calls[hc.call].telev = 0
           THEN hidden_call_destructor(call_hangup(M, hc.call, 0, "NULL"), i)
           ELSE M
      [] OTHER -> M

\* proc_hidden_call(hc), the timer handler, for the list element i
proc_hidden_call(M, i) ==
    LET hc == M.hcalls[i] IN
    CASE hc.state = "HIDDEN_SEND" ->
           tmr_start_hc(call_send_code([M EXCEPT !.hcalls[i].state = "HIDDEN_CLOSE"],
                                       hc.call, hc.code, 1), hc.id)
      [] hc.state = "HIDDEN_CLOSE" ->
           IF M.calls[hc.call].telev = 0
           THEN hidden_call_destructor(call_hangup(M, hc.call, 0, "NULL"), i)
           ELSE tmr_start_hc(M, hc.id)
      [] OTHER -> M

\* faulty variant of call_hidden_start: the session goes to state Close
call_hidden_start_close(M, c) ==
    LET i == call_hidden_find(M.hcalls, c) IN
    IF i = 0
    THEN Emit(M, [k |-> "hidden_start", call |-> c, ret |-> 22])
    ELSE IF M.hcalls[i].state # "HIDDEN_ESTABLISHED"
    THEN Emit(M, [k |-> "hidden_start", call |-> c, ret |-> 22])
    ELSE Emit(tmr_start_hc([M EXCEPT !.hcalls[i].state = "HIDDEN_CLOSE"],
                           M.hcalls[i].id),
              [k |-> "hidden_start", call |-> c, ret |-> 0])

\* faulty variant of call_hidden_start: the state is not checked
call_hidden_start_nocheck(M, c) ==
    LET i == call_hidden_find(M.hcalls, c) IN
    IF i = 0
    THEN Emit(M, [k |-> "hidden_start", call |-> c, ret |-> 22])
    ELSE Emit(tmr_start_hc([M EXCEPT !.hcalls[i].state = "HIDDEN_SEND"],
                           M.hcalls[i].id),
              [k |-> "hidden_start", call |-> c, ret |-> 0])

\* call_hidden_start(call); what it returns is left in out
call_hidden_start(M, c) ==
    LET i == call_hidden_find(M.hcalls, c) IN
    IF i = 0
    THEN Emit(M, [k |-> "hidden_start", call |-> c, ret |-> 22])
    ELSE IF M.hcalls[i].state # "HIDDEN_ESTABLISHED"
    THEN Emit(M, [k |-> "hidden_start", call |-> c, ret |-> 22])
    ELSE Emit(tmr_start_hc([M EXCEPT !.hcalls[i].state = "HIDDEN_SEND"],
                           M.hcalls[i].id),
              [k |-> "hidden_start", call |-> c, ret |-> 0])

\* faulty variant of call_hidden_close: the session is left in the list
call_hidden_close_keep(M, c) == M

\* call_hidden_close(call)
call_hidden_close(M, c) ==
    LET i == call_hidden_find(M.hcalls, c) IN
    IF i = 0 THEN M ELSE hidden_call_destructor(M, i)

---------------------------------------------------------------------------
(* Deferred release (intercom.h: struct intercom.tmr, .deref) *)

\* mem_deref(call) of the flush: the call object is freed
ReleaseCall(M, obj) ==
    Emit([M EXCEPT !.calls[obj] = [NoCall EXCEPT !.ph = "gone",
                                          !.nderef = M.calls[obj].nderef + 1]],
         [k |-> "release", call |-> obj])

\* faulty variant of mem_deref_later: the object is released at once
mem_deref_now(M, obj) == ReleaseCall(M, obj)

\* faulty variant of mem_deref_later: the object is put at the head of the list
mem_deref_later_front(M, obj) ==
    Emit([M EXCEPT !.deref = <<obj>> \o @, !.dtmr = TRUE],
         [k |-> "deref_later", call |-> obj])

\* mem_deref_later(arg): the object is appended to the list and the
\* zero-delay timer is started
mem_deref_later(M, obj) ==
    Emit([M EXCEPT !.deref = Append(@, obj), !.dtmr = TRUE],
         [k |-> "deref_later", call |-> obj])

\* the timer handler: the whole list is released, in order, and emptied
RECURSIVE deref_flush(_)
deref_flush(M) ==
    IF M.deref = <<>> THEN M
    ELSE deref_flush(ReleaseCall([M EXCEPT !.deref = Tail(@)], Head(M.deref)))

---------------------------------------------------------------------------
(* events.c: the handlers *)

T_sip_autoanswer_aufile == <<"s","i","p","_","a","u","t","o","a","n","s","w","e","r","_","a","u","f","i","l","e",":">>
T_icnormal_aufile == <<"i","c","n","o","r","m","a","l","_","a","u","f","i","l","e">>
T_icannounce_aufile == <<"i","c","a","n","n","o","u","n","c","e","_","a","u","f","i","l","e">>
T_icforce_aufile == <<"i","c","f","o","r","c","e","_","a","u","f","i","l","e">>
T_none == <<"n","o","n","e">>
T_ring_icring == <<"r","i","n","g","_","a","u","f","i","l","e",":","i","c","r","i","n","g","_","a","u","f","i","l","e">>
T_ring_icpreview == <<"r","i","n","g","_","a","u","f","i","l","e",":","i","c","p","r","e","v","i","e","w","_","a","u","f","i","l","e">>
T_ringback == <<"r","i","n","g","b","a","c","k","_","a","u","f","i","l","e",":","i","c","r","i","n","g","b","a","c","k","_","a","u","f","i","l","e">>

\* faulty variant of check_hidden: the flag is set for every intercom header
check_hidden_set(M, c, i) ==
    LET h == M.calls[c].hdrs[i] IN
    IF ~is_intercom(M.env.conf, M.env.custom, h.name, h.val)
    THEN [M |-> M, err |-> 0]
    ELSE [M |-> [M EXCEPT !.calls[c].evstop = TRUE], err |-> 0]

\* check_hidden(name, val, call)
check_hidden(M, c, i) ==
    LET h == M.calls[c].hdrs[i] IN
    IF ~is_intercom(M.env.conf, M.env.custom, h.name, h.val)
    THEN [M |-> M, err |-> 0]
    ELSE [M |-> [M EXCEPT !.calls[c].evstop = is_hidden(h.val)], err |-> 0]

\* custom_hdrs_apply(hdrs, check_hidden, call), from header i on
RECURSIVE apply_check_hidden(_, _, _)
\* ... after header i returned r: stop on an error, else go on with i + 1
next_check_hidden(r, c, i) ==
    IF r.err # 0 THEN r.M ELSE apply_check_hidden(r.M, c, i + 1)

apply_check_hidden(M, c, i) ==
    IF i > Len(M.calls[c].hdrs) THEN M
    ELSE next_check_hidden(check_hidden(M, c, i), c, i)

\* event_handler, UA_EVENT_CALL_CLOSED: the hidden check, then
\* call_hidden_close(call)
event_closed(M, c) == call_hidden_close(apply_check_hidden(M, c, 1), c)

\* faulty variant of bevent_call_emit_closed: the reason is not passed on
bevent_call_emit_closed_noprm(M, c, reason) ==
    event_closed(Emit(M, [k |-> "bevent", call |-> c, ev |-> "CALL_CLOSED",
                          prm |-> ""]), c)

\* bevent_call_emit(UA_EVENT_CALL_CLOSED, call, reason): the event goes to
\* the registered handlers at once, event_handler among them
bevent_call_emit_closed(M, c, reason) ==
    event_closed(Emit(M, [k |-> "bevent", call |-> c, ev |-> "CALL_CLOSED",
                          prm |-> reason]), c)

\* faulty variant of reject_call: the call is released at once
reject_call_inline(M, c, scode, reason) ==
    ReleaseCall(bevent_call_emit_closed(call_hangup(M, c, scode, reason), c, reason), c)

\* reject_call(call, scode, reason)
reject_call(M, c, scode, reason) ==
    mem_deref_later(
        bevent_call_emit_closed(call_hangup(M, c, scode, reason), c, reason), c)

\* faulty variant of call_progress_dir: nothing is requested
call_progress_dir_none(M, c, adir, vdir) == M

\* call_progress_dir(call, adir, vdir): what the host returns is env.progress_err
call_progress_dir(M, c, adir, vdir) ==
    Emit([M EXCEPT !.calls[c].progdir = <<adir, vdir>>],
         [k |-> "progress_dir", call |-> c, adir |-> adir, vdir |-> vdir,
          err |-> M.env.progress_err])

\* faulty variant of incoming_handler: the allow flags are not consulted
incoming_handler_allowall(M, c, i) ==
    LET h == M.calls[c].hdrs[i]
        val == h.val
        cf == M.env.conf
        hash == M.env.custom
    IN
    IF ~is_intercom(cf, hash, h.name, val) THEN [M |-> M, err |-> 0]
    ELSE [M |-> module_event(module_event(M, c, i, "incoming", pl_bytes(val)),
                   c, i, "override-aufile", T_sip_autoanswer_aufile \o T_none),
          err |-> 0]

\* incoming_handler(name, val, call), for header i of the call: the body
\* after the five flags pol have been read
incoming_admit(M, c, i, pol) ==
    LET h == M.calls[c].hdrs[i]
        val == h.val
        cf == M.env.conf
        hash == M.env.custom
        ok(X) == [M |-> X, err |-> 0]
        M0 == module_event(M, c, i, "incoming", pl_bytes(val))
        ovr(X, txt) == module_event(X, c, i, "override-aufile", txt)
    IN
    IF ~is_intercom(cf, hash, h.name, val) THEN ok(M)
    ELSE IF pol.privacy /\ is_normal(val)
    THEN ok(ovr(Emit([M EXCEPT !.calls[c].adelay = -1],
                     [k |-> "set_answer_delay", call |-> c, adelay |-> -1]),
                T_ring_icring))
    ELSE IF is_hidden(val)
    THEN IF ~pol.allow_hidden
         THEN ok(reject_call(M, c, 406, "Not Acceptable"))
         ELSE IF M.calls[c].adelay >= 0
         THEN ok(Emit([M EXCEPT !.calls[c].answtmr = TRUE],
                      [k |-> "start_answtmr", call |-> c,
                       adelay |-> M.calls[c].adelay]))
         ELSE ok(M)
    ELSE IF is_normal(val)
    THEN ok(ovr(M0, T_sip_autoanswer_aufile \o T_icnormal_aufile))
    ELSE IF ic_is_custom(hash, val)
    THEN IF ~iccustom_allowed(hash, val)
         THEN ok(reject_call(M0, c, 406, "Not Acceptable"))
         ELSE ok(ovr(M0, T_sip_autoanswer_aufile
                         \o pl_bytes(iccustom_aufile(hash, val))))
    ELSE IF is_announcement(val)
    THEN IF ~pol.allow_announce
         THEN ok(reject_call(M0, c, 406, "Not Acceptable"))
         ELSE ok(ovr(M0, T_sip_autoanswer_aufile \o T_icannounce_aufile))
    ELSE IF is_forcetalk(val)
    THEN IF ~pol.allow_force
         THEN ok(reject_call(M0, c, 406, "Not Acceptable"))
         ELSE ok(ovr(M0, T_sip_autoanswer_aufile \o T_icforce_aufile))
    ELSE IF is_surveillance(val)
    THEN IF ~pol.allow_surveil
         THEN ok(reject_call(M0, c, 406, "Not Acceptable"))
         ELSE ok(ovr(M0, T_sip_autoanswer_aufile \o T_none))
    ELSE IF is_preview(cf, val)
    THEN [M   |-> call_progress_dir(ovr(M0, T_ring_icpreview), c,
                                    "inactive", "recvonly"),
          err |-> M.env.progress_err]
    ELSE ok(M0)

\* incoming_handler(name, val, call), for header i of the call
incoming_handler(M, c, i) ==
    incoming_admit(M, c, i, Policy(M.env.conf, M.env.extra))

\* faulty variant of outgoing_handler: a forcetalk call is rejected when the
\* policy does not allow it
outgoing_handler_reject(M, c, i) ==
    LET h == M.calls[c].hdrs[i] IN
    IF ~is_intercom(M.env.conf, M.env.custom, h.name, h.val)
    THEN [M |-> M, err |-> 0]
    ELSE IF is_forcetalk(h.val) /\ ~Policy(M.env.conf, M.env.extra).allow_force
    THEN [M |-> reject_call(M, c, 406, "Not Acceptable"), err |-> 0]
    ELSE [M |-> module_event(
                   module_event(M, c, i, "outgoing", pl_bytes(h.val)),
                   c, i, "override-aufile", T_ringback),
          err |-> 0]

\* outgoing_handler(name, val, call)
outgoing_handler(M, c, i) ==
    LET h == M.calls[c].hdrs[i] IN
    IF ~is_intercom(M.env.conf, M.env.custom, h.name, h.val)
    THEN [M |-> M, err |-> 0]
    ELSE [M |-> module_event(
                   module_event(M, c, i, "outgoing", pl_bytes(h.val)),
                   c, i, "override-aufile", T_ringback),
          err |-> 0]

\* faulty variant of established_handler: an outgoing hidden call is muted
\* only when its session could be started
established_handler_ifstarted(M, c, i) ==
    LET h == M.calls[c].hdrs[i]
        call == M.calls[c]
        outgoing == call.outgoing
        sr(d) == IF d # "inactive" THEN "sendrecv" ELSE "inactive"
        fresh == /\ call_hidden_find(M.hcalls, c) # 0
                 /\ M.hcalls[call_hidden_find(M.hcalls, c)].state = "HIDDEN_ESTABLISHED"
        M1 == IF outgoing /\ is_forcetalk(h.val)
              THEN Emit([M EXCEPT !.calls[c].aldir = sr(call.aldir),
                                  !.calls[c].vldir = sr(call.vldir)],
                        [k |-> "set_media_direction", call |-> c,
                         adir |-> sr(call.aldir), vdir |-> sr(call.vldir)])
              ELSE M
    IN
    IF ~is_intercom(M.env.conf, M.env.custom, h.name, h.val)
    THEN [M |-> M, err |-> 0]
    ELSE IF outgoing /\ is_hidden(h.val)
    THEN [M |-> IF fresh
                THEN Emit([call_hidden_start(M, c) EXCEPT !.calls[c].muted = TRUE],
                          [k |-> "audio_mute", call |-> c, muted |-> TRUE])
                ELSE call_hidden_start(M, c),
          err |-> 0]
    ELSE [M |-> module_event(M1, c, i,
                   IF outgoing THEN "outgoing-established"
                               ELSE "incoming-established", pl_bytes(h.val)),
          err |-> 0]

\* faulty variant of established_handler: audio and video get the same
\* direction, that of the audio
established_handler_audiodir(M, c, i) ==
    LET h == M.calls[c].hdrs[i]
        call == M.calls[c]
        outgoing == call.outgoing
        sr(d) == IF d # "inactive" THEN "sendrecv" ELSE "inactive"
        M1 == IF outgoing /\ is_forcetalk(h.val)
              THEN Emit([M EXCEPT !.calls[c].aldir = sr(call.aldir),
                                  !.calls[c].vldir = sr(call.aldir)],
                        [k |-> "set_media_direction", call |-> c,
                         adir |-> sr(call.aldir), vdir |-> sr(call.aldir)])
              ELSE M
    IN
    IF ~is_intercom(M.env.conf, M.env.custom, h.name, h.val)
    THEN [M |-> M, err |-> 0]
    ELSE IF outgoing /\ is_hidden(h.val)
    THEN [M |-> Emit([call_hidden_start(M, c) EXCEPT !.calls[c].muted = TRUE],
                     [k |-> "audio_mute", call |-> c, muted |-> TRUE]),
          err |-> 0]
    ELSE [M |-> module_event(M1, c, i,
                   IF outgoing THEN "outgoing-established"
                               ELSE "incoming-established", pl_bytes(h.val)),
          err |-> 0]

\* faulty variant of established_handler: the audio of an outgoing hidden
\* call is not muted
established_handler_nomute(M, c, i) ==
    LET h == M.calls[c].hdrs[i]
        call == M.calls[c]
        outgoing == call.outgoing
        sr(d) == IF d # "inactive" THEN "sendrecv" ELSE "inactive"
        M1 == IF outgoing /\ is_forcetalk(h.val)
              THEN Emit([M EXCEPT !.calls[c].aldir = sr(call.aldir),
                                  !.calls[c].vldir = sr(call.vldir)],
                        [k |-> "set_media_direction", call |-> c,
                         adir |-> sr(call.aldir), vdir |-> sr(call.vldir)])
              ELSE M
    IN
    IF ~is_intercom(M.env.conf, M.env.custom, h.name, h.val)
    THEN [M |-> M, err |-> 0]
    ELSE IF outgoing /\ is_hidden(h.val)
    THEN [M |-> call_hidden_start(M, c), err |-> 0]
    ELSE [M |-> module_event(M1, c, i,
                   IF outgoing THEN "outgoing-established"
                               ELSE "incoming-established", pl_bytes(h.val)),
          err |-> 0]

\* established_handler(name, val, call)
established_handler(M, c, i) ==
    LET h == M.calls[c].hdrs[i]
        call == M.calls[c]
        outgoing == call.outgoing
        sr(d) == IF d # "inactive" THEN "sendrecv" ELSE "inactive"
        M1 == IF outgoing /\ is_forcetalk(h.val)
              THEN Emit([M EXCEPT !.calls[c].aldir = sr(call.aldir),
                                  !.calls[c].vldir = sr(call.vldir)],
                        [k |-> "set_media_direction", call |-> c,
                         adir |-> sr(call.aldir), vdir |-> sr(call.vldir)])
              ELSE M
    IN
    IF ~is_intercom(M.env.conf, M.env.custom, h.name, h.val)
    THEN [M |-> M, err |-> 0]
    ELSE IF outgoing /\ is_hidden(h.val)
    THEN [M |-> Emit([call_hidden_start(M, c) EXCEPT !.calls[c].muted = TRUE],
                     [k |-> "audio_mute", call |-> c, muted |-> TRUE]),
          err |-> 0]
    ELSE [M |-> module_event(M1, c, i,
                   IF outgoing THEN "outgoing-established"
                               ELSE "incoming-established", pl_bytes(h.val)),
          err |-> 0]

\* custom_hdrs_apply(hdrs, h, call) from header i on: the handler is called
\* for every header, in order, until one returns an error
RECURSIVE custom_hdrs_apply(_, _, _, _)
\* ... after header i returned r: stop on an error, else go on with i + 1
custom_hdrs_next(r, h, c, i) ==
    IF r.err # 0 THEN r.M ELSE custom_hdrs_apply(r.M, h, c, i + 1)

\* the call of handler h for header i; the call itself is left in out
custom_hdrs_call(M, h, c, i) ==
    CASE h = "incoming_handler" -> incoming_handler(M, c, i)
      [] h = "outgoing_handler" -> outgoing_handler(M, c, i)
      [] h = "established_handler" -> established_handler(M, c, i)

custom_hdrs_apply(M, h, c, i) ==
    IF i > Len(M.calls[c].hdrs) THEN M
    ELSE custom_hdrs_next(
             custom_hdrs_call(Emit(M, [k |-> "handler", h |-> h, call |-> c,
                                       hdr |-> i]), h, c, i),
             h, c, i)

\* faulty variant of event_switch: the outgoing handler runs in any state
event_switch_anystate(M, ev, c) ==
    IF ev = "CALL_CLOSED" THEN call_hidden_close(M, c)
    ELSE IF ev \in {"CALL_INCOMING", "CALL_LOCAL_SDP", "CALL_ESTABLISHED"}
    THEN custom_hdrs_apply(M, CASE ev = "CALL_INCOMING" -> "incoming_handler"
                                [] ev = "CALL_LOCAL_SDP" -> "outgoing_handler"
                                [] ev = "CALL_ESTABLISHED" -> "established_handler",
                           c, 1)
    ELSE M

\* event_handler, the switch over the event, after the hidden check
event_switch(M, ev, c) ==
    IF ev = "CALL_CLOSED" THEN call_hidden_close(M, c)
    ELSE IF ev = "CALL_LOCAL_SDP" /\ M.calls[c].st # "OUTGOING" THEN M
    ELSE IF ev \in {"CALL_INCOMING", "CALL_LOCAL_SDP", "CALL_ESTABLISHED"}
    THEN custom_hdrs_apply(M, CASE ev = "CALL_INCOMING" -> "incoming_handler"
                                [] ev = "CALL_LOCAL_SDP" -> "outgoing_handler"
                                [] ev = "CALL_ESTABLISHED" -> "established_handler",
                           c, 1)
    ELSE M

\* event_handler(ev, event, arg) for an event of call c
event_handler(M, ev, c) ==
    event_switch(IF ev \notin {"CALL_DTMF_START", "CALL_DTMF_END"}
                 THEN apply_check_hidden(M, c, 1) ELSE M, ev, c)

---------------------------------------------------------------------------
(* The reactor: one action per event the host dispatches, per timer that   *)
(* fires, and per step of the host that the handlers observe.              *)

\* the machine record of the current state; pe and df are what the host
\* will answer to call_progress_dir and to the call_send_digit calls
MkM(pe, df) ==
    [calls |-> calls, hcalls |-> hcalls, tmrs |-> tmrs, deref |-> deref,
     dtmr |-> dtmr, out |-> <<>>,
     env |-> [conf |-> conf, custom |-> custom, extra |-> extra,
              progress_err |-> pe, digit_fail |-> df]]

\* the state a handler leaves
Commit(M, l) ==
    /\ calls' = M.calls
    /\ hcalls' = M.hcalls
    /\ tmrs' = M.tmrs
    /\ deref' = M.deref
    /\ dtmr' = M.dtmr
    /\ out' = M.out
    /\ last' = l
    /\ UNCHANGED <<custom, found, conf, extra>>

\* call ids are handed out in order
IsNew(c) == calls[c].ph = "free" /\ \A d \in Calls : d < c => calls[d].ph # "free"

\* a live call the module has not rejected
Live(c) == calls[c].ph = "live" /\ \A i \in 1..Len(deref) : deref[i] # c

\* UA_EVENT_CREATE (no call): ua_add_xhdr_filter(ua, "Subject")
UaCreate ==
    Commit(Emit(MkM(0, 0), [k |-> "xhdr_filter", name |-> S_Subject]),
           [ev |-> "CREATE", id |-> 0])

\* an incoming call arrives: UA_EVENT_CALL_INCOMING
CallIncoming(c, hdrs, adelay, pe) ==
    /\ IsNew(c)
    /\ LET M == [MkM(pe, 0) EXCEPT !.calls[c] =
                    [NoCall EXCEPT !.ph = "live", !.st = "INCOMING",
                                   !.hdrs = hdrs, !.adelay = adelay,
                                   !.aldir = "sendrecv", !.vldir = "sendrecv"]]
       IN Commit(event_handler(M, "CALL_INCOMING", c),
                 [ev |-> "CALL_INCOMING", id |-> c])

\* the user dials: an outgoing call with the custom headers of the UA
CallOutgoing(c, hdrs, adir, vdir) ==
    /\ IsNew(c)
    /\ LET M == [MkM(0, 0) EXCEPT !.calls[c] =
                    [NoCall EXCEPT !.ph = "live", !.st = "OUTGOING",
                                   !.outgoing = TRUE, !.hdrs = hdrs,
                                   !.aldir = adir, !.vldir = vdir]]
       IN Commit(M, [ev |-> "dial", id |-> c])

\* faulty variant of cmd_dtmf: the session is appended twice
cmd_dtmf_twice(c, hdrs, code) ==
    /\ IsNew(c)
    /\ LET M == [MkM(0, 0) EXCEPT !.calls[c] =
                    [NoCall EXCEPT !.ph = "live", !.st = "OUTGOING",
                                   !.outgoing = TRUE, !.hdrs = hdrs,
                                   !.aldir = "sendonly", !.vldir = "inactive"]]
       IN Commit(hidden_call_append(hidden_call_append(M, c, code), c, code),
                 [ev |-> "icdtmf", id |-> c])

\* cmd_dtmf: common_icdial(pf, "icdtmf", SDP_SENDONLY, "<to> audio=on
\* video=off", "hidden", &call), then hidden_call_append(call, &code)
cmd_dtmf(c, hdrs, code) ==
    /\ IsNew(c)
    /\ LET M == [MkM(0, 0) EXCEPT !.calls[c] =
                    [NoCall EXCEPT !.ph = "live", !.st = "OUTGOING",
                                   !.outgoing = TRUE, !.hdrs = hdrs,
                                   !.aldir = "sendonly", !.vldir = "inactive"]]
       IN Commit(hidden_call_append(M, c, code), [ev |-> "icdtmf", id |-> c])

\* UA_EVENT_CALL_LOCAL_SDP
EvLocalSdp(c) ==
    /\ Live(c)
    /\ calls[c].st \in {"INCOMING", "OUTGOING", "ESTABLISHED"}
    /\ Commit(event_handler(MkM(0, 0), "CALL_LOCAL_SDP", c),
              [ev |-> "CALL_LOCAL_SDP", id |-> c])

\* the call is answered: UA_EVENT_CALL_ESTABLISHED
EvEstablished(c) ==
    /\ Live(c)
    /\ calls[c].st \in {"INCOMING", "OUTGOING"}
    /\ Commit(event_handler([MkM(0, 0) EXCEPT !.calls[c].st = "ESTABLISHED"],
                            "CALL_ESTABLISHED", c),
              [ev |-> "CALL_ESTABLISHED", id |-> c])

\* another event of a call (ringing, progress, DTMF): the hidden check only
EvOther(c, ev) ==
    /\ Live(c)
    /\ Commit(event_handler(MkM(0, 0), ev, c), [ev |-> ev, id |-> c])

\* the host closes the call: UA_EVENT_CALL_CLOSED, after which the host
\* frees the call object
EvClosed(c) ==
    /\ Live(c)
    /\ LET M == event_handler(MkM(0, 0), "CALL_CLOSED", c)
       IN Commit([M EXCEPT !.calls[c] = [NoCall EXCEPT !.ph = "gone"]],
                 [ev |-> "CALL_CLOSED", id |-> c])

\* the timer of hidden_call id fires: proc_hidden_call(hc).  The timer is
\* no longer armed when its handler runs.  A handler run for a hidden_call
\* that was freed reads freed memory.
TmrHidden(id, df) ==
    /\ id \in tmrs
    /\ LET M == [MkM(0, df) EXCEPT !.tmrs = @ \ {id}]
           ix == {i \in 1..Len(hcalls) : hcalls[i].id = id}
       IN Commit(IF ix = {} THEN Emit(M, [k |-> "use_after_free", hc |-> id])
                 ELSE proc_hidden_call(M, CHOOSE i \in ix : TRUE),
                 [ev |-> "proc_hidden_call", id |-> id])

\* the zero-delay timer of mem_deref_later fires
TmrDeref ==
    /\ dtmr
    /\ Commit(deref_flush([MkM(0, 0) EXCEPT !.dtmr = FALSE]),
              [ev |-> "deref_later", id |-> 0])

\* the audio layer sends out one queued telephone event of the call
TelevDrain(c) ==
    /\ calls[c].ph = "live"
    /\ calls[c].telev > 0
    /\ Commit([MkM(0, 0) EXCEPT !.calls[c].telev = @ - 1],
              [ev |-> "telev_drain", id |-> c])

---------------------------------------------------------------------------
(* Inputs *)

Hdr(n, v) == [name |-> PL(n), val |-> PL(v)]

V_door1 == <<"d","o","o","r","1">>
V_gate == <<"g","a","t","e">>
V_other == <<"o","t","h","e","r">>
V_previewcam == <<"p","r","e","v","i","e","w","c","a","m">>
N_subject == <<"s","u","b","j","e","c","t">>

N_XInfo == <<"X","-","I","n","f","o">>

\* lines of the "iccustom" configuration
L_door == <<"d","o","o","r",",","s","e","n","d","r","e","c","v",",","y","e","s",",","f","1">>
L_gate == <<"g","a","t","e",",","s","e","n","d","o","n","l","y",",","n","o",",","f","2">>
L_ann == <<"a","n","n",",","r","e","c","v","o","n","l","y",",","y","e","s",",","f","3">>
L_force == <<"f","o","r","c","e",",","i","n","a","c","t","i","v","e",",","n","o",",","f","4">>
L_surv == <<"s","u","r","v",",","r","e","c","v","o","n","l","y",",","y","e","s",",","f","7">>
L_prev == <<"p","r","e","v",",","s","e","n","d","r","e","c","v",",","n","o",",","f","8">>

L_hid == <<"h","i","d",",","s","e","n","d","r","e","c","v",",","y","e","s",",","f","9">>
L_norm == <<"n","o","r","m",",","s","e","n","d","r","e","c","v",",","n","o",",","f","0">>

\* names and values of the parameters of an extra string
V_bogus == <<"b","o","g","u","s">>
V_xyz == <<"x","y","z">>
V_maybe == <<"m","a","y","b","e">>
S_NO == <<"N","O">>
K_xicprivacy == <<"x">> \o K_icprivacy

\* "key=value", and two parameters of an extra string
KV(k, v) == k \o <<"=">> \o v
Join(a, b) == a \o <<",">> \o b

ConfKeys == {"icprivacy", "icallow_announce", "icallow_force",
             "icallow_surveil", "icallow_hidden", "icpreview_subject"}

\* no key of the module is configured
ConfNone == [k \in ConfKeys |-> Unset]

\* which call_send_digit of a code fails (0: none; 1: the first character;
\* 2: the second character of a longer code, or the release key of a code
\* of one character)
DigitFail == {0, 1, 2}

NoLast == [ev |-> "none", id |-> 0]

---------------------------------------------------------------------------
(* Spec: several calls at once under the default policy *)

SpecIncoming ==
    {<<Hdr(S_Subject, S_announcement)>>,
     <<Hdr(S_Subject, S_forcetalk)>>,
     <<Hdr(S_Subject, S_hidden)>>,
     <<Hdr(S_Subject, V_gate), Hdr(S_Subject, S_surveillance)>>}

\* the icdtmf commands: the custom headers of the UA after the dial added
\* "hidden" (a UA that already had the header has it twice), and the code
SpecHidden ==
    {[hdrs |-> <<Hdr(S_Subject, S_hidden)>>, code |-> <<"1", "2">>],
     [hdrs |-> <<Hdr(S_Subject, S_hidden), Hdr(S_Subject, S_hidden)>>,
      code |-> <<"1">>]}

Init ==
    /\ custom = conf_apply_iccustom(<<L_door, L_gate>>, <<>>)
    /\ found = 0
    /\ conf = ConfNone
    /\ extra = Unset
    /\ calls = [c \in Calls |-> NoCall]
    /\ hcalls = <<>>
    /\ tmrs = {}
    /\ deref = <<>>
    /\ dtmr = FALSE
    /\ out = <<>>
    /\ last = NoLast

Next ==
    \/ \E c \in Calls, h \in SpecIncoming : CallIncoming(c, h, 0, 0)
    \/ \E c \in Calls : CallOutgoing(c, <<Hdr(S_Subject, S_hidden)>>,
                                     "sendonly", "inactive")
    \/ \E c \in Calls, d \in SpecHidden : cmd_dtmf(c, d.hdrs, d.code)
    \/ \E c \in Calls : EvEstablished(c)
    \/ \E c \in Calls : EvClosed(c)
    \/ \E id \in tmrs, df \in DigitFail : TmrHidden(id, df)
    \/ TmrDeref
    \/ \E c \in Calls : TelevDrain(c)

Spec == Init /\ [][Next]_vars

---------------------------------------------------------------------------
(* AdmitSpec: one call, under every policy, registry and header list of    *)
(* the sets below                                                          *)

\* the "iccustom" lines of the configuration
AdmitLines ==
    {<<>>, <<L_door, L_gate>>, <<L_ann, L_force>>, <<L_surv, L_prev>>,
     <<L_hid, L_norm>>}

\* the configuration: no key set, or the five flags set
AdmitConf ==
    {ConfNone,
     [ConfNone EXCEPT !["icprivacy"] = Set(S_yes),
                      !["icallow_announce"] = Set(S_no),
                      !["icallow_force"] = Set(S_yes),
                      !["icallow_surveil"] = Set(S_yes),
                      !["icallow_hidden"] = Set(S_yes)]}

\* the account's extra string: none, "bogus=xyz", or
\* "icprivacy=no,icallow_force=no"
AdmitExtra ==
    {Unset, Set(KV(V_bogus, V_xyz)),
     Set(Join(KV(K_icprivacy, S_no), KV(K_icallow_force, S_no)))}

AdmitValues ==
    {S_normal, S_announcement, S_forcetalk, S_surveillance, S_hidden,
     V_previewcam, V_door1, V_gate, V_other}

\* the custom headers of a call
AdmitHdrs ==
    {<<Hdr(S_Subject, v)>> : v \in AdmitValues}
    \cup {<<Hdr(N_XInfo, S_forcetalk)>>,
          <<Hdr(N_subject, S_hidden)>>,
          <<Hdr(S_Subject, V_previewcam), Hdr(S_Subject, S_forcetalk)>>,
          <<Hdr(S_Subject, V_gate), Hdr(S_Subject, S_hidden)>>,
          <<Hdr(N_XInfo, V_other), Hdr(S_Subject, S_announcement)>>}

\* the local directions (audio, video) of a dialled call
AdmitDirs == {<<"sendrecv", "inactive">>, <<"inactive", "recvonly">>}

AdmitInit ==
    /\ custom \in {conf_apply_iccustom(ls, <<>>) : ls \in AdmitLines}
    /\ found = 0
    /\ conf \in AdmitConf
    /\ extra \in AdmitExtra
    /\ calls = [c \in Calls |-> NoCall]
    /\ hcalls = <<>>
    /\ tmrs = {}
    /\ deref = <<>>
    /\ dtmr = FALSE
    /\ out = <<>>
    /\ last = NoLast

AdmitNext ==
    \/ UaCreate
    \/ \E h \in AdmitHdrs, ad \in {-1, 0}, pe \in {0, 1} : CallIncoming(1, h, ad, pe)
    \/ \E h \in AdmitHdrs, d \in AdmitDirs : CallOutgoing(1, h, d[1], d[2])
    \/ EvLocalSdp(1)
    \/ EvEstablished(1)
    \/ \E ev \in {"CALL_RINGING", "CALL_DTMF_START"} : EvOther(1, ev)
    \/ EvClosed(1)
    \/ TmrDeref

AdmitSpec == AdmitInit /\ [][AdmitNext]_vars

---------------------------------------------------------------------------
(* CustomSpec: the custom subject table is filled line by line and         *)
(* searched                                                                *)

L_do == <<"d","o",",","r","e","c","v","o","n","l","y",",","n","o",",","f","5">>
L_door0 == <<"d","o","o","r",",","i","n","a","c","t","i","v","e",",","n","o",",","f","6">>
L_bad == <<"d","o","o","r"," ","y","e","s">>
V_door == <<"d","o","o","r">>
V_do == <<"d","o">>

\* a line with three fields only
L_short == <<"g","a","t","e",",","n","o",",","f","2">>

CustomLines == {L_door, L_door0, L_gate, L_do, L_bad, L_short}

CustomValues == {V_door1, V_door, V_do, V_gate, V_other, <<"d">>}

\* conf_apply hands one more "iccustom" line to iccustom_handler
Load(line) ==
    /\ Len(custom) < MaxLines
    /\ custom' = iccustom_handler(line, custom)
    /\ out' = <<[k |-> "iccustom", line |-> line]>>
    /\ last' = [ev |-> "conf_apply", id |-> 0]
    /\ UNCHANGED <<found, conf, extra, calls, hcalls, tmrs, deref, dtmr>>

\* iccustom_find(val) for a value of the Subject header
Find(val) ==
    /\ found' = iccustom_find(custom, PL(val))
    /\ out' = <<[k |-> "iccustom_find", val |-> val]>>
    /\ last' = [ev |-> "iccustom_find", id |-> 0]
    /\ UNCHANGED <<custom, conf, extra, calls, hcalls, tmrs, deref, dtmr>>

CustomInit ==
    /\ custom = <<>>
    /\ found = 0
    /\ conf = ConfNone
    /\ extra = Unset
    /\ calls = [c \in Calls |-> NoCall]
    /\ hcalls = <<>>
    /\ tmrs = {}
    /\ deref = <<>>
    /\ dtmr = FALSE
    /\ out = <<>>
    /\ last = NoLast

CustomNext ==
    \/ \E line \in CustomLines : Load(line)
    \/ \E val \in CustomValues : Find(val)

CustomSpec == CustomInit /\ [][CustomNext]_vars

---------------------------------------------------------------------------
(* PolicySpec: one incoming call under every configuration and account     *)
(* extra string of the sets below; the custom subject table is empty       *)

\* the configuration: no key set, or each of the five flags set against
\* the default of its declaration
PolicyConf ==
    {ConfNone,
     [ConfNone EXCEPT !["icprivacy"] = Set(S_yes),
                      !["icallow_announce"] = Set(S_no),
                      !["icallow_force"] = Set(S_yes),
                      !["icallow_surveil"] = Set(S_yes),
                      !["icallow_hidden"] = Set(S_yes)]}

\* the account's extra string
PolicyExtra ==
    {Unset,
     Set(<<>>),
     Set(KV(K_icprivacy, S_yes)),
     Set(Join(KV(K_icprivacy, S_yes), KV(K_icallow_force, S_yes))),
     Set(Join(KV(K_icallow_announce, S_no), KV(K_icallow_surveil, S_yes))),
     Set(Join(KV(K_icprivacy, S_no), KV(K_icallow_announce, S_yes))),
     Set(Join(KV(K_icallow_force, S_no), KV(K_icallow_surveil, S_no))),
     Set(Join(KV(V_bogus, V_xyz), KV(K_icallow_hidden, S_yes))),
     Set(Join(KV(K_icprivacy, S_yes), <<" ">> \o KV(K_icallow_hidden, S_no))),
     Set(KV(V_bogus, V_xyz)),
     Set(KV(K_xicprivacy, S_yes)),
     Set(Join(KV(K_xicprivacy, S_no), KV(K_icprivacy, S_yes))),
     Set(KV(K_icprivacy, V_maybe)),
     Set(KV(K_icallow_announce, S_NO)),
     Set(K_icallow_hidden),
     Set(Join(KV(K_icallow_force, V_maybe), KV(V_bogus, S_yes)))}

PolicyHdrs ==
    {<<Hdr(S_Subject, v)>> :
        v \in {S_normal, S_announcement, S_forcetalk, S_surveillance, S_hidden}}

PolicyInit ==
    /\ custom = <<>>
    /\ found = 0
    /\ conf \in PolicyConf
    /\ extra \in PolicyExtra
    /\ calls = [c \in Calls |-> NoCall]
    /\ hcalls = <<>>
    /\ tmrs = {}
    /\ deref = <<>>
    /\ dtmr = FALSE
    /\ out = <<>>
    /\ last = NoLast

PolicyNext ==
    \/ \E h \in PolicyHdrs : CallIncoming(1, h, 0, 0)
    \/ EvEstablished(1)
    \/ EvClosed(1)
    \/ TmrDeref

PolicySpec == PolicyInit /\ [][PolicyNext]_vars

---------------------------------------------------------------------------
(* SubjectSpec: one call with a single Subject header, under a             *)
(* configuration that allows every intent; the custom subject table is     *)
(* empty                                                                   *)

V_Normal == <<"N","o","r","m","a","l">>
V_normalx == <<"n","o","r","m","a","l","x">>
V_norma == <<"n","o","r","m","a">>
V_announcements == <<"a","n","n","o","u","n","c","e","m","e","n","t","s">>
V_Announcement == <<"A","n","n","o","u","n","c","e","m","e","n","t">>
V_forcetal == <<"f","o","r","c","e","t","a","l">>
V_Forcetalk == <<"F","o","r","c","e","t","a","l","k">>
V_surveillance2 == <<"s","u","r","v","e","i","l","l","a","n","c","e","2">>
V_Hidden == <<"H","i","d","d","e","n">>
V_hiddenx == <<"h","i","d","d","e","n","x">>
V_prev == <<"p","r","e","v">>
V_Preview == <<"P","r","e","v","i","e","w">>
V_xpreview == <<"x","p","r","e","v","i","e","w">>
V_cam == <<"c","a","m">>
V_cam1 == <<"c","a","m","1">>
V_ca == <<"c","a">>

\* every flag of the policy allows, privacy is off
ConfAllowAll ==
    [ConfNone EXCEPT !["icallow_announce"] = Set(S_yes),
                     !["icallow_force"] = Set(S_yes),
                     !["icallow_surveil"] = Set(S_yes),
                     !["icallow_hidden"] = Set(S_yes)]

\* the preview subject is the default "preview", or configured as "cam"
SubjectConf ==
    {ConfAllowAll, [ConfAllowAll EXCEPT !["icpreview_subject"] = Set(V_cam)]}

SubjectValues ==
    {S_normal, V_Normal, V_normalx, V_norma,
     S_announcement, V_announcements, V_Announcement,
     S_forcetalk, V_forcetal, V_Forcetalk,
     S_surveillance, V_surveillance2,
     S_hidden, V_Hidden, V_hiddenx,
     S_preview, V_previewcam, V_prev, V_Preview, V_xpreview,
     V_cam, V_cam1, V_ca, V_other}

SubjectInit ==
    /\ custom = <<>>
    /\ found = 0
    /\ conf \in SubjectConf
    /\ extra = Unset
    /\ calls = [c \in Calls |-> NoCall]
    /\ hcalls = <<>>
    /\ tmrs = {}
    /\ deref = <<>>
    /\ dtmr = FALSE
    /\ out = <<>>
    /\ last = NoLast

SubjectNext ==
    \/ \E v \in SubjectValues : CallIncoming(1, <<Hdr(S_Subject, v)>>, 0, 0)
    \/ \E v \in SubjectValues :
          CallOutgoing(1, <<Hdr(S_Subject, v)>>, "sendrecv", "inactive")
    \/ EvLocalSdp(1)
    \/ EvEstablished(1)
    \/ EvClosed(1)

SubjectSpec == SubjectInit /\ [][SubjectNext]_vars

---------------------------------------------------------------------------

(* What the claims read from a state *)

\* the places of the entries of kind k in a log
At(log, k) == {p \in 1..Len(log) : log[p].k = k}

\* the entries of a log a handler left while it ran for header i: those
\* after the call of the handler for i and before its call for i + 1
SegOf(log, i) ==
    LET m == {p \in At(log, "handler") : log[p].hdr = i}
        n == {p \in At(log, "handler") : log[p].hdr = i + 1}
    IN {p \in 1..Len(log) : /\ \E q \in m : q < p
                            /\ \A q \in n : p < q}

\* the handler was called for header i: no request of a media direction
\* failed for a header before it
Reached(log, i) ==
    \A j \in 1..(i - 1) : \A p \in SegOf(log, j) :
        log[p].k = "progress_dir" => log[p].err = 0

\* string a is the beginning of string s
IsPrefix(a, s) == Len(a) <= Len(s) /\ SubSeq(s, 1, Len(a)) = a

\* the entries of the table whose subject is the beginning of s
Prefixing(s) == {e \in 1..Len(custom) : IsPrefix(pl_bytes(custom[e].subject), s)}

\* the first of them
FirstPrefixing(s) == CHOOSE e \in Prefixing(s) : \A f \in Prefixing(s) : e <= f

\* the subject that marks a preview call
PreviewSubject ==
    IF conf["icpreview_subject"].set THEN conf["icpreview_subject"].v ELSE S_preview

\* the intent of a header as the classifier is described: the fixed
\* literals, then the preview subject, then the table
Intent(h) ==
    LET v == pl_bytes(h.val) IN
    IF pl_bytes(h.name) # S_Subject THEN "None"
    ELSE IF v = S_normal THEN "Normal"
    ELSE IF v = S_announcement THEN "Announcement"
    ELSE IF v = S_forcetalk THEN "ForceTalk"
    ELSE IF v = S_surveillance THEN "Surveillance"
    ELSE IF v = S_hidden THEN "Hidden"
    ELSE IF IsPrefix(PreviewSubject, v) THEN "Preview"
    ELSE IF Prefixing(v) # {} THEN "Custom"
    ELSE "None"

\* the intent of a header as the incoming handler decides it: normal and
\* hidden, then the table, then the other fixed literals
IntentIncoming(h) ==
    LET v == pl_bytes(h.val) IN
    IF pl_bytes(h.name) # S_Subject THEN "None"
    ELSE IF v = S_normal THEN "Normal"
    ELSE IF v = S_hidden THEN "Hidden"
    ELSE IF Prefixing(v) # {} THEN "Custom"
    ELSE IF v = S_announcement THEN "Announcement"
    ELSE IF v = S_forcetalk THEN "ForceTalk"
    ELSE IF v = S_surveillance THEN "Surveillance"
    ELSE IF IsPrefix(PreviewSubject, v) THEN "Preview"
    ELSE "None"

\* the effective allow flag of an intent for a header
AllowFlag(intent, h) ==
    LET pol == Policy(conf, extra) IN
    CASE intent = "Hidden" -> pol.allow_hidden
      [] intent = "Custom" -> custom[FirstPrefixing(pl_bytes(h.val))].allowed
      [] intent = "Announcement" -> pol.allow_announce
      [] intent = "ForceTalk" -> pol.allow_force
      [] intent = "Surveillance" -> pol.allow_surveil
      [] intent = "Normal" -> ~pol.privacy
      [] OTHER -> TRUE

Denying == {"Hidden", "Custom", "Announcement", "ForceTalk", "Surveillance"}

Admitting == {"Normal", "Custom", "Announcement", "ForceTalk", "Surveillance"}

\* the audio file the override of an admitted intent names
AuFile(intent, h) ==
    T_sip_autoanswer_aufile \o
    CASE intent = "Normal" -> T_icnormal_aufile
      [] intent = "Announcement" -> T_icannounce_aufile
      [] intent = "ForceTalk" -> T_icforce_aufile
      [] intent = "Surveillance" -> T_none
      [] intent = "Custom" ->
           pl_bytes(custom[FirstPrefixing(pl_bytes(h.val))].auffile)

\* the hangup of a rejection
Hangup406(c) ==
    [k |-> "hangup", call |-> c, scode |-> 406, reason |-> "Not Acceptable"]

\* the places of the override notifications of a log
Overrides(log) ==
    {p \in At(log, "module_event") : log[p].ev = "override-aufile"}

---------------------------------------------------------------------------
(* C1, C2: admission of an incoming call (AdmitSpec) *)

\* header i of the call of the last event
LastHdr(i) == calls[last.id].hdrs[i]

LastHdrs == 1..Len(calls[last.id].hdrs)

\* while the handler ran for header i the call was hung up with 406 and no
\* override was sent
Rejected(i) ==
    /\ \E p \in SegOf(out, i) : out[p] = Hangup406(last.id)
    /\ SegOf(out, i) \cap Overrides(out) = {}

OverrideTexts(log) ==
    LET IsOverride(e) == e.k = "module_event" /\ e.ev = "override-aufile"
        sel == SelectSeq(log, IsOverride)
    IN [p \in 1..Len(sel) |-> sel[p].txt]

\* C2, as amended: on an Incoming event for a call with a single header
\* ("Subject", v) whose intent, decided in the order of the incoming
\* handler, is allowed (Normal with privacy off, Custom with the first
\* matching entry allowed, Announcement, ForceTalk, Surveillance with their
\* flags), exactly one override is sent, naming the audio file of the
\* intent, and the call is not hung up.
C2_AdmitAllowed ==
    (/\ last.ev = "CALL_INCOMING"
     /\ Len(calls[last.id].hdrs) = 1
     /\ IntentIncoming(LastHdr(1)) \in Admitting
     /\ AllowFlag(IntentIncoming(LastHdr(1)), LastHdr(1)))
    => /\ OverrideTexts(out) = <<AuFile(IntentIncoming(LastHdr(1)), LastHdr(1))>>
       /\ At(out, "hangup") = {}

\* a call with the subject of an allowed table entry got the override with
\* the audio file of the entry
C2_Witness ==
    /\ last.ev = "CALL_INCOMING"
    /\ Len(calls[last.id].hdrs) = 1
    /\ IntentIncoming(LastHdr(1)) = "Custom"
    /\ AllowFlag("Custom", LastHdr(1))
    /\ pl_bytes(custom[FirstPrefixing(pl_bytes(LastHdr(1).val))].subject)
           # pl_bytes(custom[FirstPrefixing(pl_bytes(LastHdr(1).val))].auffile)
    /\ Len(OverrideTexts(out)) = 1
    /\ At(out, "hangup") = {}

\* C2 as stated: the intent is that of the classifier (fixed literals
\* before the table).
C2_Original ==
    (/\ last.ev = "CALL_INCOMING"
     /\ Len(calls[last.id].hdrs) = 1
     /\ Intent(LastHdr(1)) \in Admitting
     /\ AllowFlag(Intent(LastHdr(1)), LastHdr(1)))
    => /\ OverrideTexts(out) = <<AuFile(Intent(LastHdr(1)), LastHdr(1))>>
       /\ At(out, "hangup") = {}

---------------------------------------------------------------------------
(* C3, C4: rejection and deferred release (Spec) *)

\* the calls of the entries of kind k of a log, in order
CallsOf(log, k) ==
    LET IsK(e) == e.k = k
        sel == SelectSeq(log, IsK)
    IN [p \in 1..Len(sel) |-> sel[p].call]

\* C3: every rejection (a hangup during the dispatch of an Incoming event)
\* terminates the call with the status and reason given, is followed by the
\* call-closed notification carrying the reason, and puts the call on the
\* list of objects to release later; the call object is not released during
\* that dispatch.
C3_RejectDeferred ==
    last.ev = "CALL_INCOMING" =>
        \A p \in At(out, "hangup") :
            LET c == out[p].call IN
            /\ out[p] = Hangup406(c)
            /\ calls[c].st = "TERMINATED"
            /\ p < Len(out)
            /\ out[p + 1] = [k |-> "bevent", call |-> c, ev |-> "CALL_CLOSED",
                             prm |-> out[p].reason]
            /\ \E q \in At(out, "deref_later") : q > p /\ out[q].call = c
            /\ \E j \in 1..Len(deref) : deref[j] = c
            /\ dtmr
            /\ \A q \in At(out, "release") : out[q].call # c
            /\ calls[c].ph = "live"
            /\ calls[c].nderef = 0

\* a call was rejected while another rejected call waits for its release
C3_Witness ==
    /\ last.ev = "CALL_INCOMING"
    /\ At(out, "hangup") # {}
    /\ \E j \in 1..Len(deref) : deref[j] # last.id
    /\ calls[last.id].ph = "live"

\* C4: the objects handed to the deferred release during a dispatch are not
\* released in it, they are appended to the pending list; when the timer of
\* the list fires, every pending object is released, once per time it was
\* scheduled and in that order, and the list is empty afterwards.
C4_DeferredRelease ==
    [][IF last'.ev = "deref_later"
       THEN /\ CallsOf(out', "release") = deref
            /\ deref' = <<>>
            /\ ~dtmr'
       ELSE /\ At(out', "release") = {}
            /\ deref' = deref \o CallsOf(out', "deref_later")
            /\ \A p \in At(out', "hangup") :
                  out'[p].scode = 406 => \E j \in 1..Len(deref') :
                                             deref'[j] = out'[p].call
            /\ (deref' # <<>> => dtmr')]_vars

\* the timer fired with two scheduled objects and released both
C4_Witness ==
    /\ last.ev = "deref_later"
    /\ Len(CallsOf(out, "release")) = 2
    /\ deref = <<>>
    /\ \A c \in Calls : calls[c].ph = "gone"

---------------------------------------------------------------------------
(* C5 .. C9: the hidden call state machine (Spec) *)

\* the hidden_call objects of a list with the id
HcById(hc, id) == {i \in 1..Len(hc) : hc[i].id = id}

\* the hidden_call with the id, which is in the list
HcGet(hc, id) == hc[CHOOSE i \in HcById(hc, id) : TRUE]

\* the step is the timer handler for hidden_call id, in state st
TimerStep(id, st) ==
    /\ last'.ev = "proc_hidden_call"
    /\ last'.id = id
    /\ id \in tmrs
    /\ HcById(hcalls, id) # {}
    /\ HcGet(hcalls, id).state = st

\* C5: in state Close, a timer firing while the telephone-event buffer of
\* the call is not empty issues no hangup, leaves the session in Close and
\* arms the timer again; a firing with the buffer empty issues exactly one
\* hangup(call, 0, NULL) and destroys the session, once.
C5_CloseWaitsForDrain ==
    [][\A id \in tmrs :
         TimerStep(id, "HIDDEN_CLOSE") =>
            LET c == HcGet(hcalls, id).call IN
            IF calls[c].telev > 0
            THEN /\ At(out', "hangup") = {}
                 /\ At(out', "hc_destroy") = {}
                 /\ HcById(hcalls', id) # {}
                 /\ HcGet(hcalls', id).state = "HIDDEN_CLOSE"
                 /\ id \in tmrs'
                 /\ calls'[c].st = calls[c].st
            ELSE /\ CallsOf(out', "hangup") = <<c>>
                 /\ \A p \in At(out', "hangup") :
                       out'[p].scode = 0 /\ out'[p].reason = "NULL"
                 /\ Cardinality(At(out', "hc_destroy")) = 1
                 /\ \A p \in At(out', "hc_destroy") : out'[p].hc = id
                 /\ HcById(hcalls', id) = {}
                 /\ Len(hcalls') = Len(hcalls) - 1
                 /\ id \notin tmrs'
                 /\ calls'[c].st = "TERMINATED"]_vars

\* the timer fired in Close with the buffer drained: the call was hung up
\* and the session destroyed
C5_Witness ==
    /\ last.ev = "proc_hidden_call"
    /\ CallsOf(out, "hangup") # <<>>
    /\ At(out, "hc_destroy") # {}
    /\ HcById(hcalls, last.id) = {}

\* the digits a log submits, in order, and what the host answered
DigitsOf(log) ==
    LET IsDigit(e) == e.k = "send_digit"
        sel == SelectSeq(log, IsDigit)
    IN [p \in 1..Len(sel) |-> sel[p].key]

DigitErrs(log) ==
    LET IsDigit(e) == e.k = "send_digit"
        sel == SelectSeq(log, IsDigit)
    IN [p \in 1..Len(sel) |-> sel[p].err]

\* the step is the Established event of an outgoing call whose only hidden
\* session is fresh
StartStep(c) ==
    /\ last'.ev = "CALL_ESTABLISHED"
    /\ last'.id = c
    /\ calls[c].outgoing
    /\ HcOf(hcalls, c) # {}
    /\ \A i \in HcOf(hcalls, c) : hcalls[i].state = "HIDDEN_ESTABLISHED"
    /\ \E i \in 1..Len(calls[c].hdrs) : pl_bytes(calls[c].hdrs[i].val) = S_hidden

StartNow(c) == call_hidden_start(MkM(0, 0), c)

\* C7: call_hidden_start for a call that has no session, or whose session
\* is not in state Established, returns an error (EINVAL) and changes
\* nothing: the sessions and their states, the timers and the digits sent
\* are as before.
C7_StartRejected ==
    \A c \in Calls :
        (\/ HcOf(hcalls, c) = {}
         \/ hcalls[call_hidden_find(hcalls, c)].state # "HIDDEN_ESTABLISHED")
        => /\ StartNow(c).out = <<[k |-> "hidden_start", call |-> c, ret |-> 22]>>
           /\ StartNow(c).hcalls = hcalls
           /\ StartNow(c).tmrs = tmrs
           /\ StartNow(c).calls = calls

\* the Established event of a call with two "hidden" headers started the
\* session a second time: the second start returned the error and the
\* session is in Send with its timer armed, as the first start left it
C7_Witness ==
    /\ last.ev = "CALL_ESTABLISHED"
    /\ \E p \in At(out, "hidden_start") : out[p].ret = 0
    /\ \E p \in At(out, "hidden_start") : out[p].ret = 22
    /\ \E i \in HcOf(hcalls, last.id) :
          hcalls[i].state = "HIDDEN_SEND" /\ hcalls[i].id \in tmrs

\* the Closed event for call c, delivered in the current state, and once
\* more after that
ClosedOnce(c) == event_handler(MkM(0, 0), "CALL_CLOSED", c)

ClosedTwice(c) ==
    event_handler([ClosedOnce(c) EXCEPT !.out = <<>>], "CALL_CLOSED", c)

\* C8: the Closed event of a call destroys the hidden session of the call,
\* whatever its state, so that no session of the call is in the list
\* afterwards and the other sessions are untouched; for a call without a
\* session it changes nothing; a second Closed event changes nothing.
C8_ClosedDestroys ==
    [][last'.ev = "CALL_CLOSED" =>
         LET c == last'.id IN
         /\ HcOf(hcalls', c) = {}
         /\ hcalls' = SelectSeq(hcalls, LAMBDA h : h.call # c)
         /\ CallsOf(out', "hc_destroy") =
               (IF HcOf(hcalls, c) = {} THEN <<>> ELSE <<c>>)
         /\ (HcOf(hcalls, c) = {} => hcalls' = hcalls /\ tmrs' = tmrs)
         /\ ClosedOnce(c).hcalls = hcalls'
         /\ ClosedTwice(c).hcalls = hcalls'
         /\ ClosedTwice(c).tmrs = tmrs'
         /\ At(ClosedTwice(c).out, "hc_destroy") = {}]_vars

\* a call with a hidden session was closed: its session is gone and the
\* session of another call stayed in the list
C8_Witness ==
    /\ last.ev = "CALL_CLOSED"
    /\ \E p \in At(out, "hc_destroy") : out[p].call = last.id
    /\ HcOf(hcalls, last.id) = {}
    /\ hcalls # <<>>

\* C9: an armed hidden-call timer belongs to a session that is in the list
\* and whose call object exists; the timer handler never runs for a session
\* that was destroyed.
C9_TimerHasSession ==
    /\ \A id \in tmrs :
          /\ HcById(hcalls, id) # {}
          /\ calls[HcGet(hcalls, id).call].ph = "live"
    /\ At(out, "use_after_free") = {}

\* the Closed event destroyed a session whose timer was armed and the timer
\* is cancelled
C9_Witness ==
    /\ last.ev = "CALL_CLOSED"
    /\ \E p \in At(out, "hc_destroy") : out[p].tmr /\ out[p].hc \notin tmrs

---------------------------------------------------------------------------
(* C10: the lookup in the custom subject table (CustomSpec) *)

\* the value the last lookup was made for
FindVal == out[1].val

---------------------------------------------------------------------------
(* C11, C12: the account's extra string and the five flags (PolicySpec) *)

\* the pieces of s between the characters sep
RECURSIVE SplitSep(_, _)
SplitSep(s, sep) ==
    LET at == {i \in 1..Len(s) : s[i] = sep} IN
    IF at = {} THEN <<s>>
    ELSE LET i == CHOOSE x \in at : \A y \in at : x <= y
         IN <<SubSeq(s, 1, i - 1)>> \o SplitSep(SubSeq(s, i + 1, Len(s)), sep)

\* s without the white space around it
RECURSIVE Trim(_)
Trim(s) ==
    IF s = <<>> THEN s
    ELSE IF s[1] \in WS THEN Trim(Tail(s))
    ELSE IF s[Len(s)] \in WS THEN Trim(SubSeq(s, 1, Len(s) - 1))
    ELSE s

\* a piece "key=value" as a pair; a piece without "=" is a key of no value
Item(f) ==
    LET parts == SplitSep(f, "=") IN
    IF Len(parts) = 1 THEN [key |-> Trim(f), val |-> <<>>]
    ELSE [key |-> Trim(parts[1]),
          val |-> Trim(SubSeq(f, Len(parts[1]) + 2, Len(f)))]

\* the extra string read as a list of key=value pairs between commas
ExtraItems(ex) ==
    IF ~ex.set THEN {}
    ELSE {Item(SplitSep(ex.v, ",")[j]) : j \in 1..Len(SplitSep(ex.v, ","))}

PolicyKeys ==
    {K_icprivacy, K_icallow_announce, K_icallow_force, K_icallow_surveil,
     K_icallow_hidden}

\* the flag of a policy that a key of the extra string names
FlagOf(pol, k) ==
    CASE k = K_icprivacy -> pol.privacy
      [] k = K_icallow_announce -> pol.allow_announce
      [] k = K_icallow_force -> pol.allow_force
      [] k = K_icallow_surveil -> pol.allow_surveil
      [] k = K_icallow_hidden -> pol.allow_hidden

\* the flags as the configuration alone sets them
GlobalDefaults(cf) ==
    [privacy        |-> conf_get_bool(cf, "icprivacy", FALSE),
     allow_announce |-> conf_get_bool(cf, "icallow_announce", TRUE),
     allow_force    |-> conf_get_bool(cf, "icallow_force", FALSE),
     allow_surveil  |-> conf_get_bool(cf, "icallow_surveil", FALSE),
     allow_hidden   |-> conf_get_bool(cf, "icallow_hidden", FALSE)]

\* C11: when the incoming handler resolves the flags, each of the five keys
\* that appears in the account's extra string with the value yes or no
\* gives its flag that value, and every flag whose key does not appear in
\* the string has the value of the configuration.
C11_ExtraOverrides ==
    last.ev = "CALL_INCOMING" =>
        \A k \in PolicyKeys :
            /\ \A it \in ExtraItems(extra) :
                  (it.key = k /\ it.val \in {S_yes, S_no})
                  => FlagOf(Policy(conf, extra), k) = (it.val = S_yes)
            /\ (\A it \in ExtraItems(extra) : it.key # k)
                  => FlagOf(Policy(conf, extra), k) = FlagOf(GlobalDefaults(conf), k)

\* the extra string sets no flag: every parameter of it has a name that is
\* none of the five keys, or a value that is neither yes nor no
Harmless(ex) ==
    \A it \in ExtraItems(ex) : it.key \notin PolicyKeys \/ it.val \notin {S_yes, S_no}

\* C12: when the incoming handler resolves the flags and the account's
\* extra string is absent, holds only unknown keys, or holds a recognized
\* key whose value is neither yes nor no, the flags are exactly those of
\* the configuration, and the handler runs for the header as it does with
\* no extra string: no error ends the resolution.
C12_HarmlessExtra ==
    (last.ev = "CALL_INCOMING" /\ Harmless(extra)) =>
        /\ Policy(conf, extra) = GlobalDefaults(conf)
        /\ out = event_handler(
                    [MkM(0, 0) EXCEPT !.env.extra = Unset, !.calls[1] =
                        [NoCall EXCEPT !.ph = "live", !.st = "INCOMING",
                                       !.hdrs = calls[1].hdrs,
                                       !.aldir = "sendrecv", !.vldir = "sendrecv"]],
                    "CALL_INCOMING", 1).out

\* an extra string with a recognized key of another value, or with an
\* unknown key that ends in a recognized one, under a configuration that
\* sets the flags, left the flags of the configuration
C12_Witness ==
    /\ last.ev = "CALL_INCOMING"
    /\ conf # ConfNone
    /\ extra.set
    /\ Harmless(extra)
    /\ \E it \in ExtraItems(extra) :
          \/ it.key \in PolicyKeys /\ it.val = V_maybe
          \/ it.key = K_xicprivacy
    /\ Policy(conf, extra) = GlobalDefaults(conf)
    /\ \E p \in At(out, "handler") : out[p].h = "incoming_handler"

---------------------------------------------------------------------------
(* C13: the flags when nothing sets them (AdmitSpec) *)

\* neither the configuration nor the extra string names one of the flags
NoFlagSet ==
    /\ \A k \in {"icprivacy", "icallow_announce", "icallow_force",
                 "icallow_surveil", "icallow_hidden"} : ~conf[k].set
    /\ \A it \in ExtraItems(extra) : it.key \notin PolicyKeys

DefaultPolicy ==
    [privacy |-> FALSE, allow_announce |-> TRUE, allow_force |-> FALSE,
     allow_surveil |-> FALSE, allow_hidden |-> FALSE]

\* while the handler ran for header i the call was not hung up and exactly
\* one override was sent, naming the audio file
AcceptedWith(i, file) ==
    /\ \A p \in SegOf(out, i) : out[p].k # "hangup"
    /\ Cardinality(SegOf(out, i) \cap Overrides(out)) = 1
    /\ \A p \in SegOf(out, i) \cap Overrides(out) :
          out[p].txt = T_sip_autoanswer_aufile \o file

\* header i of the last call is ("Subject", v)
SubjectIs(i, v) ==
    /\ pl_bytes(LastHdr(i).name) = S_Subject
    /\ pl_bytes(LastHdr(i).val) = v

\* C13, as amended: when neither the configuration nor the account's extra
\* string sets a flag, the flags are privacy=false, allowAnnounce=true,
\* allowForce=false, allowSurveil=false, allowHidden=false; so an incoming
\* Hidden call is rejected with 406, and, when no entry of the custom
\* subject table has a subject the value begins with, an incoming
\* Announcement is accepted and incoming ForceTalk and Surveillance are
\* rejected with 406.
C13_Defaults ==
    (last.ev = "CALL_INCOMING" /\ NoFlagSet) =>
        /\ Policy(conf, extra) = DefaultPolicy
        /\ \A i \in LastHdrs : Reached(out, i) =>
              /\ SubjectIs(i, S_hidden) => Rejected(i)
              /\ (SubjectIs(i, S_announcement) /\ Prefixing(S_announcement) = {})
                    => AcceptedWith(i, T_icannounce_aufile)
              /\ (SubjectIs(i, S_forcetalk) /\ Prefixing(S_forcetalk) = {})
                    => Rejected(i)
              /\ (SubjectIs(i, S_surveillance) /\ Prefixing(S_surveillance) = {})
                    => Rejected(i)

\* with an extra string that sets no flag and no configured flag, a
\* forcetalk call was rejected
C13_Witness ==
    /\ last.ev = "CALL_INCOMING"
    /\ NoFlagSet
    /\ extra.set
    /\ Prefixing(S_forcetalk) = {}
    /\ SubjectIs(1, S_forcetalk)
    /\ Rejected(1)

\* C13 as stated: the admission by default holds whatever the custom
\* subject table is.
C13_Original ==
    (last.ev = "CALL_INCOMING" /\ NoFlagSet) =>
        /\ Policy(conf, extra) = DefaultPolicy
        /\ \A i \in LastHdrs : Reached(out, i) =>
              /\ SubjectIs(i, S_hidden) => Rejected(i)
              /\ SubjectIs(i, S_announcement)
                    => AcceptedWith(i, T_icannounce_aufile)
              /\ SubjectIs(i, S_forcetalk) => Rejected(i)
              /\ SubjectIs(i, S_surveillance) => Rejected(i)

---------------------------------------------------------------------------
(* C14: headers of another name (AdmitSpec) *)

\* the events whose handlers read the headers of the call
HeaderEvents ==
    {"CALL_INCOMING", "CALL_LOCAL_SDP", "CALL_ESTABLISHED", "CALL_RINGING"}

\* no header of call c in the next state has the name "Subject"
NoSubjectNext(c) ==
    \A i \in 1..Len(calls'[c].hdrs) : pl_bytes(calls'[c].hdrs[i].name) # S_Subject

\* a step of an Incoming, LocalOfferReady or Established event, or of
\* another event that runs the hidden check only: a header whose name is
\* not "Subject" leaves nothing in the log of the calls made to the host,
\* and when the call has no other header the call is as the host made it
\* (its state apart), nothing is queued for release and no hidden-call
\* session or timer changes.
C14_Step ==
    last'.ev \in HeaderEvents =>
        /\ \A i \in 1..Len(calls'[last'.id].hdrs) :
              pl_bytes(calls'[last'.id].hdrs[i].name) # S_Subject
              => SegOf(out', i) = {}
        /\ NoSubjectNext(last'.id) =>
              /\ \A p \in 1..Len(out') : out'[p].k = "handler"
              /\ calls'[last'.id] =
                    IF last'.ev = "CALL_INCOMING"
                    THEN [NoCall EXCEPT !.ph = "live", !.st = "INCOMING",
                                        !.hdrs = calls'[last'.id].hdrs,
                                        !.adelay = calls'[last'.id].adelay,
                                        !.aldir = "sendrecv", !.vldir = "sendrecv"]
                    ELSE [calls[last'.id] EXCEPT !.st = calls'[last'.id].st]
              /\ deref' = deref /\ dtmr' = dtmr
              /\ hcalls' = hcalls /\ tmrs' = tmrs

\* C14: a header whose name is not exactly "Subject" has the intent None:
\* for such a header the Incoming, LocalOfferReady, Established and
\* hidden-check handlers send no notification, hang up nothing and change
\* no setting of the call.
C14_NoSubjectNoEffect == [][C14_Step]_vars

\* an outgoing call whose only header is ("subject", "hidden") was
\* established: nothing was sent, the call is neither muted nor stopped
C14_Witness ==
    /\ last.ev = "CALL_ESTABLISHED"
    /\ calls[last.id].outgoing
    /\ Len(calls[last.id].hdrs) = 1
    /\ pl_bytes(LastHdr(1).name) = N_subject
    /\ pl_bytes(LastHdr(1).val) = S_hidden
    /\ Len(out) = 1 /\ out[1].k = "handler"
    /\ ~calls[last.id].muted /\ ~calls[last.id].evstop

---------------------------------------------------------------------------
(* C15, C16: the classification of a Subject value (SubjectSpec) *)

FixedLiterals ==
    {S_normal, S_announcement, S_forcetalk, S_surveillance, S_hidden}

\* how the incoming handler treated header i, read from the calls it made
\* (under a policy that allows everything, privacy off)
Treated(i) ==
    LET seg == SegOf(out, i)
        txts == {out[p].txt : p \in seg \cap Overrides(out)}
    IN IF seg = {} THEN "None"
       ELSE IF \E p \in seg : out[p].k = "start_answtmr" THEN "Hidden"
       ELSE IF txts = {T_sip_autoanswer_aufile \o T_icnormal_aufile} THEN "Normal"
       ELSE IF txts = {T_sip_autoanswer_aufile \o T_icannounce_aufile}
       THEN "Announcement"
       ELSE IF txts = {T_sip_autoanswer_aufile \o T_icforce_aufile} THEN "ForceTalk"
       ELSE IF txts = {T_sip_autoanswer_aufile \o T_none} THEN "Surveillance"
       ELSE IF txts = {T_ring_icpreview} THEN "Preview"
       ELSE "Other"

\* the last event is an incoming call with the single header ("Subject", v)
IncomingSubject ==
    /\ last.ev = "CALL_INCOMING"
    /\ Len(calls[last.id].hdrs) = 1
    /\ pl_bytes(LastHdr(1).name) = S_Subject

\* C15: a "Subject" value is classified as Normal, Announcement, ForceTalk,
\* Surveillance or Hidden exactly when it equals the literal normal,
\* announcement, forcetalk, surveillance or hidden, case-sensitively and
\* over its whole length: both the predicate of the intent and the way the
\* incoming handler treats the call say so, and a value that differs in
\* case or has more or fewer characters is not given that intent.
C15_FixedLiterals ==
    IncomingSubject =>
        LET val == LastHdr(1).val
            v == pl_bytes(val)
        IN /\ is_normal(val) <=> v = S_normal
           /\ is_announcement(val) <=> v = S_announcement
           /\ is_forcetalk(val) <=> v = S_forcetalk
           /\ is_surveillance(val) <=> v = S_surveillance
           /\ is_hidden(val) <=> v = S_hidden
           /\ Treated(1) = "Normal" <=> v = S_normal
           /\ Treated(1) = "Announcement" <=> v = S_announcement
           /\ Treated(1) = "ForceTalk" <=> v = S_forcetalk
           /\ Treated(1) = "Surveillance" <=> v = S_surveillance
           /\ Treated(1) = "Hidden" <=> v = S_hidden
           /\ calls[last.id].evstop <=> v = S_hidden

\* a call with the subject "hiddenx" was not treated as hidden, nor as
\* anything else
C15_Witness ==
    /\ IncomingSubject
    /\ pl_bytes(LastHdr(1).val) = V_hiddenx
    /\ Treated(1) = "None"
    /\ ~calls[last.id].evstop

\* C16: a header value is treated as Preview if and only if it is at least
\* as long as the configured preview subject (by default "preview") and
\* begins with it byte for byte; a value shorter than the preview subject
\* is never Preview.  (The way the handler treats the call is read for the
\* values that are none of the fixed literals.)
C16_PreviewPrefix ==
    IncomingSubject =>
        LET val == LastHdr(1).val
            v == pl_bytes(val)
            begins == /\ Len(v) >= Len(PreviewSubject)
                      /\ \A j \in 1..Len(PreviewSubject) : v[j] = PreviewSubject[j]
        IN /\ is_preview(conf, val) <=> begins
           /\ v \notin FixedLiterals => (Treated(1) = "Preview" <=> begins)
           /\ Len(v) < Len(PreviewSubject) => Treated(1) # "Preview"

\* with the preview subject configured as "cam", a call with the subject
\* "cam1" was treated as a preview
C16_Witness ==
    /\ IncomingSubject
    /\ conf["icpreview_subject"].set
    /\ PreviewSubject = V_cam
    /\ pl_bytes(LastHdr(1).val) = V_cam1
    /\ Treated(1) = "Preview"

---------------------------------------------------------------------------
(* C17: values that match several classifications (AdmitSpec) *)

\* while the handler ran for header i the override of a preview was sent
\* and the call was not hung up
PreviewHandled(i) ==
    /\ \A p \in SegOf(out, i) : out[p].k # "hangup"
    /\ {out[p].txt : p \in SegOf(out, i) \cap Overrides(out)} = {T_ring_icpreview}

\* the call was decided by the first entry of the table that the value of
\* header i begins with
DecidedByEntry(i) ==
    LET e == custom[FirstPrefixing(pl_bytes(LastHdr(i).val))] IN
    IF e.allowed THEN AcceptedWith(i, pl_bytes(e.auffile)) ELSE Rejected(i)

\* the call was decided by the flag of the fixed intent of header i
DecidedByFlag(i) ==
    IF AllowFlag(Intent(LastHdr(i)), LastHdr(i))
    THEN AcceptedWith(i, SubSeq(AuFile(Intent(LastHdr(i)), LastHdr(i)),
                                Len(T_sip_autoanswer_aufile) + 1,
                                Len(AuFile(Intent(LastHdr(i)), LastHdr(i)))))
    ELSE Rejected(i)

\* C17, as amended: when a "Subject" value matches several classifications,
\* the admission decision follows the order of the incoming handler:
\* Normal and Hidden, then Custom, then Announcement, ForceTalk and
\* Surveillance, then Preview.  A value equal to announcement, forcetalk or
\* surveillance that a custom entry is a prefix of is admitted or rejected
\* by the allowed flag of the first such entry, a value that matches both
\* the preview subject and a custom prefix is handled as Custom, and the
\* values hidden and normal are decided as Hidden and Normal whatever the
\* table holds.
C17_HandlerOrder ==
    last.ev = "CALL_INCOMING" =>
        \A i \in LastHdrs :
            (/\ Reached(out, i)
             /\ pl_bytes(LastHdr(i).name) = S_Subject
             /\ Prefixing(pl_bytes(LastHdr(i).val)) # {})
            => LET v == pl_bytes(LastHdr(i).val) IN
               /\ (v \in {S_announcement, S_forcetalk, S_surveillance}
                   \/ (v \notin FixedLiterals /\ IsPrefix(PreviewSubject, v)))
                     => DecidedByEntry(i)
               /\ v = S_hidden =>
                     /\ SegOf(out, i) \cap Overrides(out) = {}
                     /\ Rejected(i) <=> ~Policy(conf, extra).allow_hidden
               /\ v = S_normal =>
                     /\ \A p \in SegOf(out, i) : out[p].k # "hangup"
                     /\ Cardinality(SegOf(out, i) \cap Overrides(out)) = 1

\* a surveillance call was accepted by an entry of the table although the
\* flag allowSurveil is false
C17_Witness ==
    /\ last.ev = "CALL_INCOMING"
    /\ SubjectIs(1, S_surveillance)
    /\ Prefixing(S_surveillance) # {}
    /\ custom[FirstPrefixing(S_surveillance)].allowed
    /\ ~Policy(conf, extra).allow_surveil
    /\ AcceptedWith(1, pl_bytes(custom[FirstPrefixing(S_surveillance)].auffile))

\* C17 as stated: the fixed literals come first, then Preview, then Custom.
C17_Original ==
    last.ev = "CALL_INCOMING" =>
        \A i \in LastHdrs :
            (/\ Reached(out, i)
             /\ pl_bytes(LastHdr(i).name) = S_Subject
             /\ Prefixing(pl_bytes(LastHdr(i).val)) # {})
            => LET v == pl_bytes(LastHdr(i).val) IN
               /\ v \in {S_announcement, S_forcetalk, S_surveillance}
                     => DecidedByFlag(i)
               /\ (v \notin FixedLiterals /\ IsPrefix(PreviewSubject, v))
                     => PreviewHandled(i)

---------------------------------------------------------------------------
(* C18, C19, C20: the hidden, privacy and preview branches (AdmitSpec) *)

\* the places in the segment of header i where "incoming" was notified
IncomingNotes(i) ==
    {p \in SegOf(out, i) : out[p].k = "module_event" /\ out[p].ev = "incoming"}

\* C18: on an Incoming event, for a header of intent Hidden the handler is
\* called for: if allowHidden is false the call is hung up with 406 "Not
\* Acceptable" and a call-closed event carrying that reason is emitted; if
\* allowHidden is true the call is not hung up and the answer timer is
\* armed when and only when the answer delay of the call is >= 0; in both
\* cases neither the "incoming" notification nor any override is sent.
C18_HiddenIncoming ==
    last.ev = "CALL_INCOMING" =>
        \A i \in LastHdrs :
            (Reached(out, i) /\ SubjectIs(i, S_hidden)) =>
                /\ IncomingNotes(i) = {}
                /\ SegOf(out, i) \cap Overrides(out) = {}
                /\ IF ~Policy(conf, extra).allow_hidden
                   THEN /\ \E p \in SegOf(out, i) : out[p] = Hangup406(last.id)
                        /\ \E p \in SegOf(out, i) :
                              out[p] = [k |-> "bevent", call |-> last.id,
                                        ev |-> "CALL_CLOSED",
                                        prm |-> "Not Acceptable"]
                        /\ \A p \in SegOf(out, i) : out[p].k # "start_answtmr"
                   ELSE /\ \A p \in SegOf(out, i) : out[p].k # "hangup"
                        /\ (\E p \in SegOf(out, i) : out[p].k = "start_answtmr")
                              <=> calls[last.id].adelay >= 0
                        /\ calls[last.id].answtmr <=> calls[last.id].adelay >= 0

\* a hidden call without an answer delay was allowed: no timer was armed
\* and nothing was sent
C18_Witness ==
    /\ last.ev = "CALL_INCOMING"
    /\ SubjectIs(1, S_hidden)
    /\ Policy(conf, extra).allow_hidden
    /\ calls[last.id].adelay = -1
    /\ SegOf(out, 1) = {}
    /\ ~calls[last.id].answtmr

\* C19: on an Incoming event, for a header of intent Normal the handler is
\* called for while the privacy flag is true, the answer delay of the call
\* is set to -1 (never), exactly one override is sent, which is
\* ring_aufile:icring_aufile, no "incoming" notification is sent and the
\* call is not hung up.
C19_PrivacyNormal ==
    last.ev = "CALL_INCOMING" =>
        \A i \in LastHdrs :
            (/\ Reached(out, i)
             /\ SubjectIs(i, S_normal)
             /\ Policy(conf, extra).privacy) =>
                /\ \E p \in SegOf(out, i) :
                      out[p] = [k |-> "set_answer_delay", call |-> last.id,
                                adelay |-> -1]
                /\ calls[last.id].adelay = -1
                /\ Cardinality(SegOf(out, i) \cap Overrides(out)) = 1
                /\ \A p \in SegOf(out, i) \cap Overrides(out) :
                      out[p].txt = T_ring_icring
                /\ IncomingNotes(i) = {}
                /\ \A p \in SegOf(out, i) : out[p].k # "hangup"

\* a normal call arrived under privacy, although a custom entry that does
\* not allow is a prefix of "normal": the ring override was sent
C19_Witness ==
    /\ last.ev = "CALL_INCOMING"
    /\ SubjectIs(1, S_normal)
    /\ Policy(conf, extra).privacy
    /\ Prefixing(S_normal) # {}
    /\ calls[last.id].adelay = -1
    /\ OverrideTexts(out) = <<T_ring_icring>>

\* the request of a media direction in the segment of header i
ProgressDirs(i) == {p \in SegOf(out, i) : out[p].k = "progress_dir"}

\* the treatment of a preview: "incoming" notified, the preview ring
\* override sent, audio inactive and video receive-only requested, no hangup
PreviewTreatment(i) ==
    /\ IncomingNotes(i) # {}
    /\ PreviewHandled(i)
    /\ ProgressDirs(i) # {}
    /\ \A p \in ProgressDirs(i) :
          out[p].adir = "inactive" /\ out[p].vdir = "recvonly"
    /\ ~Rejected(i)

\* C20, as amended: on an Incoming event, for a header the handler is
\* called for whose value begins with the preview subject, is none of the
\* fixed literals and is not prefixed by any entry of the custom subject
\* table, the "incoming" notification and the override
\* ring_aufile:icpreview_aufile are sent and the direction audio=inactive,
\* video=receive-only is requested; such a call is never rejected, whatever
\* the policy flags are.
C20_Preview ==
    last.ev = "CALL_INCOMING" =>
        \A i \in LastHdrs :
            (Reached(out, i) /\ IntentIncoming(LastHdr(i)) = "Preview")
            => PreviewTreatment(i)

\* a preview call arrived under flags that allow nothing; the host refused
\* the direction, the call was still not hung up
C20_Witness ==
    /\ last.ev = "CALL_INCOMING"
    /\ IntentIncoming(LastHdr(1)) = "Preview"
    /\ ~Policy(conf, extra).allow_force
    /\ ~Policy(conf, extra).allow_surveil
    /\ ~Policy(conf, extra).allow_hidden
    /\ \E p \in ProgressDirs(1) : out[p].err # 0
    /\ calls[last.id].progdir = <<"inactive", "recvonly">>
    /\ PreviewTreatment(1)

\* C20 as stated: the intent Preview is that of the classifier (the preview
\* subject before the table).
C20_Original ==
    last.ev = "CALL_INCOMING" =>
        \A i \in LastHdrs :
            (Reached(out, i) /\ Intent(LastHdr(i)) = "Preview")
            => PreviewTreatment(i)

---------------------------------------------------------------------------
(* C21, C22: outgoing calls and the event stop flag (AdmitSpec) *)

\* the notifications of the module in the segment of header i
NotesOf(i) == {p \in SegOf(out, i) : out[p].k = "module_event"}

\* the host passes a notification on to the other listeners unless the
\* event stop flag of the call was set when it was sent
Visible(log) == {p \in At(log, "module_event") : ~log[p].stop}

\* a list of headers carries the Hidden intent: one of them is ("Subject",
\* "hidden") and none of them has another intercom intent
HiddenHdrs(hdrs) ==
    /\ \E i \in 1..Len(hdrs) : Intent(hdrs[i]) = "Hidden"
    /\ \A i \in 1..Len(hdrs) : Intent(hdrs[i]) \in {"Hidden", "None"}

\* it carries another intercom intent, and not the Hidden one
OtherIntercomHdrs(hdrs) ==
    /\ \E i \in 1..Len(hdrs) : Intent(hdrs[i]) # "None"
    /\ \A i \in 1..Len(hdrs) : Intent(hdrs[i]) # "Hidden"

\* call c carries the Hidden intent
HiddenCall(c) == HiddenHdrs(calls[c].hdrs)

\* C21: on a LocalOfferReady event nothing is sent unless the call is in
\* the outgoing state; in the outgoing state, for every header classified
\* Normal, Announcement, ForceTalk, Surveillance or Custom one "outgoing"
\* notification carrying the raw value and one override
\* ringback_aufile:icringback_aufile are sent, and for a Hidden call no
\* notification is passed on to the other listeners.
C21_LocalOffer ==
    last.ev = "CALL_LOCAL_SDP" =>
        IF calls[last.id].st # "OUTGOING"
        THEN out = <<>>
        ELSE /\ \A i \in LastHdrs :
                   Intent(LastHdr(i)) \in {"Normal", "Announcement", "ForceTalk",
                                           "Surveillance", "Custom"}
                   => /\ Cardinality(NotesOf(i)) = 2
                      /\ \E p \in NotesOf(i) :
                            /\ out[p].ev = "outgoing"
                            /\ out[p].txt = pl_bytes(LastHdr(i).val)
                      /\ \E p \in NotesOf(i) :
                            /\ out[p].ev = "override-aufile"
                            /\ out[p].txt = T_ringback
             /\ HiddenCall(last.id) => Visible(out) = {}

\* the local offer of an incoming call was ready: nothing was sent,
\* although the call has an intercom subject
C21_Witness ==
    /\ last.ev = "CALL_LOCAL_SDP"
    /\ calls[last.id].st = "INCOMING"
    /\ SubjectIs(1, S_announcement)
    /\ out = <<>>

\* the events of a call after which the call is still there and whose
\* dispatch begins with the hidden check
CheckedEvents ==
    {"CALL_INCOMING", "CALL_LOCAL_SDP", "CALL_ESTABLISHED", "CALL_RINGING"}

\* C22: after every event of a call other than DTMF-start and DTMF-end the
\* event stop flag of the call is true if the call carries the Hidden
\* intent and false if it carries another intercom intent, and it had that
\* value before the handler of the event sent anything; a DTMF-start event
\* leaves the flag alone.  So no notification of a Hidden call (incoming,
\* outgoing, established, override) is passed on to the other listeners in
\* any state.
C22_Step ==
    /\ last'.ev \in CheckedEvents =>
          /\ HiddenHdrs(calls'[last'.id].hdrs) =>
                /\ calls'[last'.id].evstop
                /\ \A p \in At(out', "module_event") : out'[p].stop
          /\ OtherIntercomHdrs(calls'[last'.id].hdrs) =>
                /\ ~calls'[last'.id].evstop
                /\ \A p \in At(out', "module_event") : ~out'[p].stop
    /\ last'.ev = "CALL_DTMF_START" =>
          /\ calls'[last'.id].evstop = calls[last'.id].evstop
          /\ out' = <<>>
    /\ (last'.id \in Calls /\ HiddenHdrs(calls'[last'.id].hdrs))
          => Visible(out') = {}

C22_HiddenSuppressed == [][C22_Step]_vars

\* the local offer of an outgoing hidden call was ready: the handler sent
\* its notifications, all of them with the event stop flag set
C22_Witness ==
    /\ last.ev = "CALL_LOCAL_SDP"
    /\ HiddenCall(last.id)
    /\ calls[last.id].evstop
    /\ At(out, "module_event") # {}
    /\ Visible(out) = {}

\* the entries of kind k that the handler call of header i left in a log
KindOf(log, i, k) == {p \in SegOf(log, i) : log[p].k = k}

\* C23: on an Established event of an outgoing call that carries the Hidden
\* intent, for every hidden header the hidden-call state machine of the
\* call is started (call_hidden_start) and the local audio is muted; a
\* session of the call that was in state Established is in state Send with
\* its timer armed afterwards; and no notification at all is sent, so no
\* "established" one.
C23_Step ==
    (/\ last'.ev = "CALL_ESTABLISHED"
     /\ calls'[last'.id].outgoing
     /\ HiddenHdrs(calls'[last'.id].hdrs))
    => /\ \A i \in 1..Len(calls'[last'.id].hdrs) :
             Intent(calls'[last'.id].hdrs[i]) = "Hidden"
             => /\ Cardinality(KindOf(out', i, "hidden_start")) = 1
                /\ Cardinality(KindOf(out', i, "audio_mute")) = 1
                /\ \A p \in KindOf(out', i, "audio_mute") :
                      /\ out'[p].muted
                      /\ \A q \in KindOf(out', i, "hidden_start") : q < p
       /\ calls'[last'.id].muted
       /\ At(out', "module_event") = {}
       /\ \A j \in HcOf(hcalls, last'.id) :
             (j = call_hidden_find(hcalls, last'.id)
              /\ hcalls[j].state = "HIDDEN_ESTABLISHED")
             => /\ hcalls'[j].state = "HIDDEN_SEND"
                /\ hcalls'[j].id \in tmrs'
                /\ \E p \in At(out', "hidden_start") : out'[p].ret = 0

ForcedDir(d) == IF d = "inactive" THEN "inactive" ELSE "sendrecv"

\* the handler of the Established event is called for a ForceTalk header
ForceTalkHdrs(hdrs) == {i \in 1..Len(hdrs) : Intent(hdrs[i]) = "ForceTalk"}

\* C24: on an Established event of an outgoing call with a ForceTalk
\* header the local direction of the call is set, for audio and for video
\* on its own, to sendrecv when the direction it had was not inactive and
\* to inactive otherwise; on an Established event of an incoming call, or
\* of a call without a ForceTalk header, no direction is set and the local
\* directions are what they were.
C24_Step ==
    last'.ev = "CALL_ESTABLISHED" =>
       LET c == last'.id
           sets == At(out', "set_media_direction")
       IN IF calls[c].outgoing /\ ForceTalkHdrs(calls[c].hdrs) # {}
          THEN /\ calls'[c].aldir = ForcedDir(calls[c].aldir)
               /\ calls'[c].vldir = ForcedDir(calls[c].vldir)
               /\ Cardinality(sets) = Cardinality(ForceTalkHdrs(calls[c].hdrs))
               /\ \A p \in sets :
                     /\ out'[p].call = c
                     /\ out'[p].adir = ForcedDir(calls[c].aldir)
                     /\ out'[p].vdir = ForcedDir(calls[c].vldir)
          ELSE /\ sets = {}
               /\ calls'[c].aldir = calls[c].aldir
               /\ calls'[c].vldir = calls[c].vldir

C24_ForceTalkDirection == [][C24_Step]_vars

\* an outgoing ForceTalk call dialled with audio inactive and video
\* recvonly was established: audio stays inactive, video is sendrecv
C24_Witness ==
    /\ last.ev = "CALL_ESTABLISHED"
    /\ calls[last.id].outgoing
    /\ ForceTalkHdrs(calls[last.id].hdrs) # {}
    /\ calls[last.id].aldir = "inactive"
    /\ calls[last.id].vldir = "sendrecv"
    /\ \E p \in At(out, "set_media_direction") :
          out[p].adir = "inactive" /\ out[p].vdir = "sendrecv"

\* the "established" notifications the handler sent for header i
EstablishedNotes(log, i) ==
    {p \in KindOf(log, i, "module_event") :
        log[p].ev \in {"outgoing-established", "incoming-established"}}

\* C25: the outcomes of the Established handler exclude each other: for an
\* intercom header the "established" notification is sent exactly when the
\* call is neither outgoing with a Hidden header nor outgoing with a
\* ForceTalk header; an outgoing ForceTalk call gets the direction set and
\* no "established" notification.
C25_Step ==
    last'.ev = "CALL_ESTABLISHED" =>
       LET c == last'.id
           hdrs == calls[c].hdrs
       IN \A i \in 1..Len(hdrs) :
             Intent(hdrs[i]) # "None" =>
                /\ (EstablishedNotes(out', i) # {})
                      <=> ~(calls[c].outgoing
                            /\ Intent(hdrs[i]) \in {"Hidden", "ForceTalk"})
                /\ (calls[c].outgoing /\ Intent(hdrs[i]) = "ForceTalk")
                      => /\ KindOf(out', i, "set_media_direction") # {}
                         /\ EstablishedNotes(out', i) = {}

C25_Exclusive == [][C25_Step]_vars

\* what hidden_call_append(call, code) would leave in the current state
AppendNow(c) == hidden_call_append(MkM(0, 0), c, <<"1">>)

\* C26, as amended: in every reachable state a call has at most one hidden
\* session, because the one creator of sessions (the icdtmf command) appends
\* one session for the call it has just dialled; hidden_call_append itself
\* does not look for a session of the call: whatever the list holds, it
\* appends a new session in state Established at the tail and reports no
\* error.
C26_OneSession ==
    /\ \A c \in Calls : Cardinality(HcOf(hcalls, c)) <= 1
    /\ \A c \in Calls :
          calls[c].ph = "live" =>
             /\ Len(AppendNow(c).hcalls) = Len(hcalls) + 1
             /\ SubSeq(AppendNow(c).hcalls, 1, Len(hcalls)) = hcalls
             /\ AppendNow(c).hcalls[Len(hcalls) + 1].call = c
             /\ AppendNow(c).hcalls[Len(hcalls) + 1].state = "HIDDEN_ESTABLISHED"

\* two icdtmf commands were given: two sessions, one for each call
C26_Witness ==
    /\ Len(hcalls) = 2
    /\ hcalls[1].call # hcalls[2].call
    /\ last.ev = "icdtmf"
    /\ HcOf(hcalls, last.id) # {}

\* C26 as stated: creating a session for a call that already has one is an
\* error and leaves the list of sessions unchanged.
C26_Original ==
    \A c \in Calls :
       HcOf(hcalls, c) # {} => AppendNow(c).hcalls = hcalls

\* the step is the Send step of hidden_call id and a submission fails in it
FailingSend(id) ==
    /\ TimerStep(id, "HIDDEN_SEND")
    /\ \E p \in 1..Len(DigitErrs(out')) : DigitErrs(out')[p] # 0

\* C27, as amended: a digit that fails ends the submission of the code: the
\* characters before it were submitted in order, no character after it and
\* no release digit is submitted; the session arms its retry timer and is
\* in state Close all the same.
C27_Step ==
    \A id \in tmrs :
       FailingSend(id) =>
          LET code == HcGet(hcalls, id).code
              n == Len(DigitsOf(out'))
          IN /\ DigitErrs(out')[n] # 0
             /\ \A p \in 1..(n - 1) : DigitErrs(out')[p] = 0
             /\ DigitsOf(out') = SubSeq(code \o <<KEYCODE_REL>>, 1, n)
             /\ (n <= Len(code) => \A p \in 1..n : DigitsOf(out')[p] # KEYCODE_REL)
             /\ HcById(hcalls', id) # {}
             /\ HcGet(hcalls', id).state = "HIDDEN_CLOSE"
             /\ id \in tmrs'

WellFormed(line) == Len(SplitSep(line, ",")) >= 4

\* the lines of a sequence that are well-formed, in order
RECURSIVE WellFormedOf(_)
WellFormedOf(lines) ==
    IF lines = <<>> THEN <<>>
    ELSE IF WellFormed(Head(lines))
    THEN <<Head(lines)>> \o WellFormedOf(Tail(lines))
    ELSE WellFormedOf(Tail(lines))

\* the sequences of three lines with a line in the middle that does not parse
BrokenLoads ==
    {<<a, b, c>> : a \in {L_door, L_do}, b \in {L_bad, L_short},
                   c \in {L_gate, L_door0}}

\* C28: while the registry is loaded, a line that does not parse adds no
\* entry and does not end the loading: the entries of the table are those
\* of the well-formed lines before and after it, in the order of the lines,
\* each with the subject and the audio file of its line.
C28_Step ==
    /\ last'.ev = "conf_apply" =>
          LET line == out'[1].line
              f == SplitSep(line, ",")
          IN IF WellFormed(line)
             THEN /\ Len(custom') = Len(custom) + 1
                  /\ SubSeq(custom', 1, Len(custom)) = custom
                  /\ pl_bytes(custom'[Len(custom')].subject) = f[1]
                  /\ pl_bytes(custom'[Len(custom')].auffile) = f[4]
             ELSE custom' = custom
    /\ \A ls \in BrokenLoads :
          /\ conf_apply_iccustom(ls, custom)
                = conf_apply_iccustom(WellFormedOf(ls), custom)
          /\ Len(conf_apply_iccustom(ls, custom)) = Len(custom) + 2

C28_BadLineSkipped == [][C28_Step]_vars

\* a line that does not parse was handed over after a well-formed one, and
\* the table still has the one entry
C28_Witness ==
    /\ last.ev = "conf_apply"
    /\ ~WellFormed(out[1].line)
    /\ Len(custom) = 1

\* the values the accessors of the table are asked for: those of the
\* Subject headers, and the value that is missing
AskedValues == {PL(v) : v \in AdmitValues} \cup {PL_INIT}

\* no entry of the table has a subject the value begins with
NoEntryFor(val) == Prefixing(pl_bytes(val)) = {}

\* C29: for a value that matches no entry of the registry (the registry may
\* be empty, the value may be missing) the accessors answer: not custom, not
\* allowed, direction inactive, no audio file; and an incoming call whose
\* Subject value matches no entry and is none of the other intents leaves
\* the handler without any action: no notification, no hangup, no change
\* of the call.
C29_Step ==
    /\ \A val \in AskedValues :
          NoEntryFor(val) =>
             /\ ~ic_is_custom(custom, val)
             /\ ~iccustom_allowed(custom, val)
             /\ iccustom_dir(custom, val) = "inactive"
             /\ ~pl_isset(iccustom_aufile(custom, val))
    /\ (/\ last'.ev = "CALL_INCOMING"
        /\ \A i \in 1..Len(calls'[last'.id].hdrs) :
              /\ NoEntryFor(calls'[last'.id].hdrs[i].val)
              /\ Intent(calls'[last'.id].hdrs[i]) = "None")
       => /\ \A p \in 1..Len(out') : out'[p].k = "handler"
          /\ Len(out') = Len(calls'[last'.id].hdrs)
          /\ calls'[last'.id].st = "INCOMING"
          /\ ~calls'[last'.id].evstop
          /\ deref' = deref
          /\ dtmr' = dtmr

C29_NoMatch == [][C29_Step]_vars

\* an incoming call with Subject: other arrived while the table has entries,
\* none of them for that value: the handler did nothing
C29_Witness ==
    /\ last.ev = "CALL_INCOMING"
    /\ Len(custom) > 0
    /\ SubjectIs(1, V_other)
    /\ NoEntryFor(LastHdr(1).val)
    /\ ~ic_is_custom(custom, LastHdr(1).val)
    /\ Len(out) = 1

\* C30: scheduling a release appends the object at the tail of the pending
\* list and leaves the zero-delay timer armed: it is armed by the first
\* scheduling and stays as it is by a later one, so that one firing is
\* pending however many objects were scheduled.  When the timer fires, the
\* pending objects are released in the order they were appended, the list
\* is empty and the timer is idle afterwards; nothing is released in any
\* other step, and what is scheduled after a firing waits for the next one.
C30_Step ==
    IF last'.ev = "deref_later"
    THEN /\ dtmr /\ deref # <<>>
         /\ CallsOf(out', "release") = deref
         /\ At(out', "deref_later") = {}
         /\ deref' = <<>>
         /\ ~dtmr'
    ELSE /\ Len(deref') >= Len(deref)
         /\ SubSeq(deref', 1, Len(deref)) = deref
         /\ SubSeq(deref', Len(deref) + 1, Len(deref')) = CallsOf(out', "deref_later")
         /\ dtmr' = (dtmr \/ At(out', "deref_later") # {})
         /\ (dtmr' <=> deref' # <<>>)
         /\ At(out', "release") = {}

---------------------------------------------------------------------------
(* ReloadSpec: the operator reloads the custom subject table between the   *)
(* events of a call                                                        *)

\* reload(): the table is cleared and loaded again from the "iccustom"
\* lines the configuration has now, in one run of the command handler
cmd_reload(lines) ==
    /\ custom' = conf_apply_iccustom(lines, <<>>)
    /\ out' = <<[k |-> "reload", lines |-> lines]>>
    /\ last' = [ev |-> "icreload", id |-> 0]
    /\ UNCHANGED <<found, conf, extra, calls, hcalls, tmrs, deref, dtmr>>

\* the "iccustom" lines the configuration may hold at a reload
ReloadLines ==
    {<<>>, <<L_door, L_gate>>, <<L_gate>>, <<L_door0, L_bad>>, <<L_bad, L_do>>}

ReloadHdrs == {<<Hdr(S_Subject, v)>> : v \in {V_door1, V_gate, V_other}}

ReloadInit ==
    /\ custom \in {conf_apply_iccustom(ls, <<>>) : ls \in ReloadLines}
    /\ found = 0
    /\ conf = ConfNone
    /\ extra = Unset
    /\ calls = [c \in Calls |-> NoCall]
    /\ hcalls = <<>>
    /\ tmrs = {}
    /\ deref = <<>>
    /\ dtmr = FALSE
    /\ out = <<>>
    /\ last = NoLast

ReloadNext ==
    \/ \E ls \in ReloadLines : cmd_reload(ls)
    \/ \E h \in ReloadHdrs : CallIncoming(1, h, 0, 0)
    \/ \E h \in ReloadHdrs : CallOutgoing(1, h, "sendrecv", "inactive")
    \/ EvLocalSdp(1)
    \/ EvEstablished(1)
    \/ EvClosed(1)
    \/ TmrDeref

ReloadSpec == ReloadInit /\ [][ReloadNext]_vars

\* the subjects of the entries of a table, in order
SubjectsOf(tab) == [e \in 1..Len(tab) |-> pl_bytes(tab[e].subject)]

\* the subjects of the well-formed lines of a configuration, in order
SubjectsOfLines(lines) ==
    [n \in 1..Len(WellFormedOf(lines)) |-> SplitSep(WellFormedOf(lines)[n], ",")[1]]

\* C31: a reload leaves in the registry exactly the entries of the lines
\* the configuration has now, in their order, and none of the load before;
\* no other step changes the registry; so what a handler of an Incoming,
\* LocalOfferReady or Established event (and its hidden check) reads is
\* the table of one whole load, and an incoming call with a custom subject
\* is admitted or rejected by the entry of the table as last loaded.
C31_Step ==
    /\ IF last'.ev = "icreload"
       THEN SubjectsOf(custom') = SubjectsOfLines(out'[1].lines)
       ELSE custom' = custom
    /\ \E ls \in ReloadLines : SubjectsOf(custom') = SubjectsOfLines(ls)
    /\ last'.ev = "CALL_INCOMING" =>
          LET v == pl_bytes(calls'[1].hdrs[1].val) IN
          IF Prefixing(v) = {}
          THEN At(out', "module_event") = {} /\ At(out', "hangup") = {}
          ELSE IF custom[FirstPrefixing(v)].allowed
          THEN /\ At(out', "hangup") = {}
               /\ OverrideTexts(out')
                     = <<T_sip_autoanswer_aufile
                         \o pl_bytes(custom[FirstPrefixing(v)].auffile)>>
          ELSE At(out', "hangup") # {}

ObsKinds ==
    {"module_event", "hangup", "bevent", "set_answer_delay", "start_answtmr",
     "progress_dir", "set_media_direction", "audio_mute"}

Obs(log) == LET IsObs(e) == e.k \in ObsKinds IN SelectSeq(log, IsObs)

\* a machine that has handled nothing: call c alone, as the host hands it
\* over (headers, direction, state, answer delay, local directions), no
\* hidden session, no timer, nothing to release
FreshM(c, r) ==
    [calls |-> [d \in Calls |->
                  IF d = c
                  THEN [NoCall EXCEPT !.ph = "live", !.st = r.st,
                                      !.outgoing = r.outgoing, !.hdrs = r.hdrs,
                                      !.adelay = r.adelay, !.aldir = r.aldir,
                                      !.vldir = r.vldir]
                  ELSE NoCall],
     hcalls |-> <<>>, tmrs |-> {}, deref |-> <<>>, dtmr |-> FALSE, out |-> <<>>,
     env |-> [conf |-> conf, custom |-> custom, extra |-> extra,
              progress_err |-> 0, digit_fail |-> 0]]

\* what the handler of event ev leaves for such a call in that machine
FreshObs(c, r, ev) == Obs(event_handler(FreshM(c, r), ev, c).out)

\* the call as the host hands it over with an incoming call event
IncomingCall(hdrs) ==
    [NoCall EXCEPT !.st = "INCOMING", !.hdrs = hdrs, !.aldir = "sendrecv",
                   !.vldir = "sendrecv"]

\* C32: the notifications, hangups and changes of call settings that the
\* handling of one event of a call leaves are those the handler leaves in a
\* machine that has handled nothing before, given the same event, headers,
\* direction and state of the call, configuration, account string and
\* registry: they do not depend on the other calls, on the hidden sessions,
\* on the objects waiting for release, nor on flags left by earlier events.
C32_Step ==
    /\ last'.ev = "CALL_INCOMING" =>
          Obs(out') = FreshObs(last'.id, IncomingCall(calls'[last'.id].hdrs),
                               "CALL_INCOMING")
    /\ last'.ev = "CALL_ESTABLISHED" =>
          Obs(out') = FreshObs(last'.id,
                               [calls[last'.id] EXCEPT !.st = "ESTABLISHED"],
                               "CALL_ESTABLISHED")
    /\ last'.ev = "CALL_CLOSED" =>
          Obs(out') = FreshObs(last'.id, calls[last'.id], "CALL_CLOSED")

C32_Stateless == [][C32_Step]_vars

\* an outgoing hidden call was established and muted while its session was
\* started, another call has a session and a third object waits for release
C32_Witness ==
    /\ last.ev = "CALL_ESTABLISHED"
    /\ calls[last.id].outgoing
    /\ Obs(out) # <<>>
    /\ HcOf(hcalls, last.id) # {}
    /\ deref # <<>>

\* C33, as amended: a hidden session is created by the icdtmf command, when
\* the call is dialled and before it is established, in state Established;
\* every session of the list belongs to a live outgoing call; it is in
\* state Established exactly while its call has not received the
\* Established event, and in Send or Close only after it; it is removed by
\* the Closed event of its call and by the Close step that finds the
\* buffer empty, and no other step than icdtmf adds a session.
C33_Step ==
    /\ \A i \in 1..Len(hcalls') :
          LET c == hcalls'[i].call IN
          /\ calls'[c].ph = "live"
          /\ calls'[c].outgoing
          /\ (hcalls'[i].state = "HIDDEN_ESTABLISHED") <=> (calls'[c].st = "OUTGOING")
          /\ hcalls'[i].state \in {"HIDDEN_SEND", "HIDDEN_CLOSE"}
                => calls'[c].st = "ESTABLISHED"
    /\ Len(hcalls') > Len(hcalls) =>
          /\ last'.ev = "icdtmf"
          /\ hcalls' = Append(hcalls, hcalls'[Len(hcalls')])
          /\ hcalls'[Len(hcalls')].call = last'.id
          /\ hcalls'[Len(hcalls')].state = "HIDDEN_ESTABLISHED"
    /\ last'.ev = "CALL_CLOSED" => HcOf(hcalls', last'.id) = {}
    /\ \A id \in tmrs :
          (TimerStep(id, "HIDDEN_CLOSE") /\ calls[HcGet(hcalls, id).call].telev = 0)
          => HcById(hcalls', id) = {}

C33_SessionLifetime == [][C33_Step]_vars

\* the icdtmf command was given: the call is not established, and its
\* session is in the list
C33_Witness ==
    /\ last.ev = "icdtmf"
    /\ calls[last.id].st = "OUTGOING"
    /\ \E i \in HcOf(hcalls, last.id) : hcalls[i].state = "HIDDEN_ESTABLISHED"

\* C33 as stated: every session of the list belongs to a call that has
\* received its Established event.
C33_Original ==
    \A i \in 1..Len(hcalls) : calls[hcalls[i].call].st # "OUTGOING"

\* the place of the first hangup of a log (0: none)
FirstHangup(log) ==
    IF At(log, "hangup") = {} THEN 0
    ELSE CHOOSE p \in At(log, "hangup") : \A q \in At(log, "hangup") : p <= q

\* C34: once a call was rejected during an Incoming event, its remaining
\* headers cause no further action in that event: no notification after
\* the hangup, no second hangup, and the call is scheduled for the deferred
\* release at most once.
C34_RejectOnce ==
    (last.ev = "CALL_INCOMING" /\ At(out, "hangup") # {})
    => /\ Cardinality(At(out, "hangup")) = 1
       /\ Cardinality(At(out, "deref_later")) = 1
       /\ \A p \in At(out, "module_event") : p < FirstHangup(out)

\* the hangups with 406 of a log
Hangups406(log) == {p \in At(log, "hangup") : log[p].scode = 406}

\* C35, as amended: a hangup with 406 is issued only while an Incoming
\* event is handled, and only for a header whose intent, decided in the
\* order of the incoming handler (normal and hidden, then the table, then
\* announcement, forcetalk, surveillance, then preview), is Hidden, Custom,
\* Announcement, ForceTalk or Surveillance and whose allow flag is false.
\* Normal headers, Preview headers that no table entry is a prefix of,
\* unclassified headers and the Created, LocalOfferReady, Established,
\* Closed and other events never cause one.
C35_RejectOnlyPolicy ==
    \A p \in Hangups406(out) :
       /\ last.ev = "CALL_INCOMING"
       /\ out[p] = Hangup406(last.id)
       /\ \E i \in LastHdrs :
             /\ p \in SegOf(out, i)
             /\ IntentIncoming(LastHdr(i)) \in Denying
             /\ ~AllowFlag(IntentIncoming(LastHdr(i)), LastHdr(i))

\* an incoming call with Subject: normal arrived under a table with an
\* entry "norm" that is not allowed, and was not hung up
C35_Witness ==
    /\ last.ev = "CALL_INCOMING"
    /\ SubjectIs(1, S_normal)
    /\ Prefixing(S_normal) # {}
    /\ ~custom[FirstPrefixing(S_normal)].allowed
    /\ At(out, "hangup") = {}
    /\ At(out, "module_event") # {}

\* C35 as stated: the intent is that of the classifier (fixed literals and
\* preview before the table).
C35_Original ==
    \A p \in Hangups406(out) :
       /\ last.ev = "CALL_INCOMING"
       /\ \E i \in LastHdrs :
             /\ p \in SegOf(out, i)
             /\ Intent(LastHdr(i)) \in Denying
             /\ ~AllowFlag(Intent(LastHdr(i)), LastHdr(i))

\* the sessions a step released
Destroyed(log) == {log[p].hc : p \in At(log, "hc_destroy")}

\* C36: whatever the order of the timer firings of a hidden session and the
\* Closed event of its call (the Closed event that follows the hangup of
\* the state machine included), a session is released at most once: a
\* release takes a session that is in the list out of it and cancels its
\* timer, no step releases the same session twice, the timer handler never
\* runs for a released session, and a Closed event for a call whose
\* session is gone leaves the list alone.
C36_Step ==
    /\ Cardinality(At(out', "hc_destroy")) = Cardinality(Destroyed(out'))
    /\ \A id \in Destroyed(out') :
          /\ HcById(hcalls, id) # {}
          /\ HcById(hcalls', id) = {}
          /\ id \notin tmrs'
    /\ At(out', "use_after_free") = {}
    /\ \A id \in tmrs' : HcById(hcalls', id) # {}
    /\ \A i, j \in 1..Len(hcalls') : hcalls'[i].id = hcalls'[j].id => i = j
    /\ (last'.ev = "CALL_CLOSED" /\ HcOf(hcalls, last'.id) = {})
          => hcalls' = hcalls /\ tmrs' = tmrs

C36_ReleasedOnce == [][C36_Step]_vars

\* the state machine hung the call up and released its session; the call
\* is still there, so that its Closed event is yet to come
C36_Witness ==
    /\ last.ev = "proc_hidden_call"
    /\ At(out, "hangup") # {}
    /\ Destroyed(out) = {last.id}
    /\ HcById(hcalls, last.id) = {}
    /\ last.id \notin tmrs
    /\ \E c \in Calls : calls[c].ph = "live" /\ calls[c].st = "TERMINATED"
                         /\ calls[c].outgoing

---------------------------------------------------------------------------
(* LiveSpec: the hidden calls alone, with timers that fire and an audio    *)
(* layer that sends out what is queued                                     *)

\* the icdtmf command of LiveSpec: a code of two digits
LiveHidden == [hdrs |-> <<Hdr(S_Subject, S_hidden)>>, code |-> <<"1", "2">>]

LiveNext ==
    \/ \E c \in Calls : cmd_dtmf(c, LiveHidden.hdrs, LiveHidden.code)
    \/ \E c \in Calls : EvEstablished(c)
    \/ \E c \in Calls : EvClosed(c)
    \/ \E id \in tmrs, df \in DigitFail : TmrHidden(id, df)
    \/ \E c \in Calls : TelevDrain(c)

\* an armed timer fires (tmr_start with 20 ms on the one loop of the host),
\* and the audio layer goes on sending the queued telephone events
LiveFairness ==
    /\ \A id \in Calls : WF_vars(\E df \in DigitFail : TmrHidden(id, df))
    /\ \A c \in Calls : WF_vars(TelevDrain(c))

LiveSpec == Init /\ [][LiveNext]_vars /\ LiveFairness

\* hidden session id is in the list and was started
Started(id) ==
    /\ HcById(hcalls, id) # {}
    /\ HcGet(hcalls, id).state \in {"HIDDEN_SEND", "HIDDEN_CLOSE"}

\* C37: when armed timers fire and the audio layer sends out the queued
\* telephone events, so that the buffer of the call becomes and stays empty,
\* every hidden session that was started (state Send or Close) is removed
\* from the list in the end, by the hangup of the state machine or by the
\* Closed event of its call.
C37_Terminates ==
    \A id \in Calls : Started(id) ~> (HcById(hcalls, id) = {})

\* the Close step found the buffer of the call empty after it had to wait
\* for it: the call is hung up and the list has no session
C37_Witness ==
    /\ last.ev = "proc_hidden_call"
    /\ Destroyed(out) = {last.id}
    /\ \E p \in At(out, "hangup") :
          calls[out[p].call].telev = 0 /\ out[p].scode = 0
    /\ hcalls = <<>>
    /\ tmrs = {}

\* the hangups of the state machine in a log (no SIP status)
MachineHangups(log) == {p \in At(log, "hangup") : log[p].scode = 0}

\* session id is in state Close
InClose(hc, id) == HcById(hc, id) # {} /\ HcGet(hc, id).state = "HIDDEN_CLOSE"

\* C38, as amended: the state machine hangs a call up only in a timer step
\* of a session in state Close, and only when the buffer of the call is
\* empty; a session enters state Close only through its Send step, in which
\* the characters of the code were submitted in order up to the first
\* submission that failed, and the release digit after them when none
\* failed: all len(code)+1 digits when no submission fails.
C38_Step ==
    /\ \A p \in MachineHangups(out') :
          /\ last'.ev = "proc_hidden_call"
          /\ TimerStep(last'.id, "HIDDEN_CLOSE")
          /\ out'[p].call = HcGet(hcalls, last'.id).call
          /\ calls[out'[p].call].telev = 0
          /\ DigitsOf(out') = <<>>
    /\ \A id \in Calls :
          (InClose(hcalls', id) /\ ~InClose(hcalls, id))
          => /\ TimerStep(id, "HIDDEN_SEND")
             /\ LET all == HcGet(hcalls, id).code \o <<KEYCODE_REL>>
                    n == Len(DigitsOf(out'))
                IN /\ n >= 1
                   /\ DigitsOf(out') = SubSeq(all, 1, n)
                   /\ (\A q \in 1..n : DigitErrs(out')[q] = 0) => n = Len(all)

C39_MutedOnlyStarted ==
    (/\ last.ev = "CALL_ESTABLISHED"
     /\ calls[last.id].outgoing
     /\ calls[last.id].muted)
    => \E i \in HcOf(hcalls, last.id) :
          /\ hcalls[i].state \in {"HIDDEN_SEND", "HIDDEN_CLOSE"}
          /\ hcalls[i].id \in tmrs

=============================================================================
